---- MODULE Spec2Model ----
(***************************************************************************)
(* A model of the franchise marketplace front end: the page handlers of    *)
(* the React components and the rows of the hosted database they read and  *)
(* write.  Every remote call of a handler is one step, so that other       *)
(* clients may act between two awaits of the same handler; a remote call   *)
(* either succeeds or returns an error, chosen nondeterministically.       *)
(***************************************************************************)
EXTENDS Integers, Sequences, FiniteSets, TLC

(***************************************************************************)
(* Bounds of the model.                                                    *)
(***************************************************************************)
\* The wall clock read by new Date() runs from 0 to MaxTime.
MaxTime == 1

\* "No value": a null column, no signed-in user.
Null == -1
NoUser == "nobody"

(***************************************************************************)
(* Accounts: auth users, the profiles table and the browser's session.     *)
(***************************************************************************)
\* Auth users.  fa and fb signed up as franchisors, adm is an administrator,
\* cus a customer, and nop an auth user whose profile row was never written;
\* fc has yet to sign up.
Users == {"fa", "fb", "adm", "cus", "nop", "fc"}
Registered == {"fa", "fb", "adm", "cus", "nop"}
Franchisors == {"fa", "fb"}
\* Browser sessions of administrators (two admins may work at once).
Admins == {"A1", "A2"}

NoProfile == [user_type |-> "none", status |-> "none", approved_at |-> Null]

\* part_001:688 and part_001:694, the two messages of FranchisorLogin.
PendingMessage == "Your account is still awaiting approval. Please check your email for confirmation once your account has been approved."
RejectedMessage == "Your account application has been rejected. Please contact support for more information."
UnauthorizedMessage == "Unauthorized access"
InvalidCredentialsMessage == "Invalid email or password"
ProfileErrorMessage == "profile read failed"
SignInErrorMessage == "Invalid login credentials"
RemoteErrorMessage == "remote call failed"
\* part_010:178
DetailsErrorMessage == "Failed to submit your request. Please try again."

VARIABLES
  now,        \* the wall clock
  profiles,   \* table profiles: user id -> row (NoProfile: no row)
  session,    \* the signed-in user of the browser that logs in
  login,      \* the login form in that browser: FranchisorLogin or AdminLogin
  franchises, \* table franchises: id -> row
  adminPage,  \* per admin: the approvals pages' local state
  leads,      \* table franchise_leads: id -> row
  leadsPage,  \* the franchisor's Leads page: its local state
  leadReqs,   \* updateLeadStatus calls in flight, in the order they were started
  featured_ads, \* table featured_ads: a set of rows
  adsPage,    \* the franchisor's FeaturedAds page: its local state
  adminAds,   \* the admin's FeaturedAds page: its local state
  franchise_details,           \* table franchise_details: franchise id -> row
  franchise_category_mappings, \* franchise id -> the category ids mapped, in row order
  franchise_gallery,           \* franchise id -> the image urls, in row order
  child_rows, \* franchise id -> kind -> the rows of franchise_faqs,
              \* franchise_testimonials or franchise_success_stories, in row order
  storage,    \* the objects of the franchise-images bucket
  forms,      \* per editor: the AddFranchise or EditFranchise page of a browser
  visitor,    \* the public page of a visitor's browser and its request modal
  lead_inserts, \* table franchise_leads: the rows inserted by visitors, in order
  advertising_settings, \* the featured_pricing of the settings row: duration -> price
  settingsPage, \* the admin's AdvertisingSettings page: its local state
  messages,     \* table messages: the rows in the order they were inserted
  msgPages,     \* per user: the Support or Messages page of their browser
  auth_users,   \* the auth users: who can sign in
  signup,       \* the FranchisorSignup page in the browser of an applicant
  layout,       \* the FranchisorLayout of franchisor fa: its badges
  ad_metrics,   \* table ad_metrics: the rows in the order they were inserted
  dashboard,    \* per franchisor: the FranchisorDashboard of their browser
  countFetches  \* the runs of fetchNotificationCounts in flight

accountVars == <<profiles, session, login>>
approvalVars == <<franchises, adminPage>>
leadVars == <<leads, leadsPage, leadReqs>>
adVars == <<featured_ads, adsPage, adminAds>>
tableVars == <<franchise_details, franchise_category_mappings, franchise_gallery,
               child_rows, storage>>
formVars == <<tableVars, forms>>
inquiryVars == <<visitor, lead_inserts, ad_metrics>>
settingVars == <<advertising_settings, settingsPage>>
messageVars == <<messages, msgPages>>
signupVars == <<auth_users, signup>>
layoutVars == <<layout, countFetches>>
dashboardVars == <<dashboard>>
pageVars == <<inquiryVars, settingVars, messageVars, signupVars, layoutVars, dashboardVars>>
vars == <<now, accountVars, approvalVars, leadVars, adVars, formVars, pageVars>>

\* What the handlers of one part of the program leave alone.
ExceptLogin == <<now, profiles, approvalVars, leadVars, adVars, formVars, pageVars>>
ExceptSession == <<now, profiles, approvalVars, leadVars, adVars, formVars, pageVars>>
ExceptAdminPage == <<now, accountVars, franchises, leadVars, adVars, formVars, pageVars>>
ExceptLeads == <<now, accountVars, approvalVars, adVars, formVars, pageVars>>
ExceptAds == <<now, accountVars, approvalVars, leadVars, formVars, pageVars>>
ExceptClock == <<accountVars, approvalVars, leadVars, adVars, formVars, pageVars>>
ExceptApprovals == <<now, leadVars, adVars, formVars, pageVars>>
ExceptForms == <<now, accountVars, adminPage, leadVars, adVars, pageVars>>
ExceptInquiries == <<now, accountVars, approvalVars, leadVars, adVars, formVars, settingVars,
                     messageVars, signupVars, layoutVars, dashboardVars>>
ExceptSettings == <<now, accountVars, approvalVars, leadVars, adVars, formVars, inquiryVars,
                    messageVars, signupVars, layoutVars, dashboardVars>>
ExceptSignup == <<now, accountVars, approvalVars, leadVars, adVars, formVars, inquiryVars,
                  settingVars, messageVars, layoutVars, dashboardVars>>
ExceptMessages == <<now, accountVars, approvalVars, leadVars, adVars, formVars, inquiryVars,
                    settingVars, signupVars, layoutVars, dashboardVars>>
ExceptLayout == <<now, accountVars, approvalVars, leadVars, adVars, formVars, inquiryVars,
                  settingVars, messageVars, signupVars, dashboardVars>>
ExceptDashboard == <<now, accountVars, approvalVars, leadVars, adVars, formVars, inquiryVars,
                     settingVars, messageVars, signupVars, layoutVars>>

IdleLogin ==
  [form |-> "none", pc |-> "idle", error |-> "", nav |-> "",
   seen |-> NoProfile, outcome |-> "none"]

(***************************************************************************)
(* FranchisorLogin.handleSubmit                                            *)
(***************************************************************************)
\* Steps 3 of FranchisorLogin.handleSubmit: what the handler does with the
\* profile it read.  signOut: the compensating sign-out is called; error: the
\* message thrown ("" when none); proceed: the handler goes on to the
\* last_login update and the navigation.
FranchisorCheckNoSignOut(profile) ==
  IF profile.user_type # "franchisor"
    THEN [signOut |-> FALSE, error |-> UnauthorizedMessage, proceed |-> FALSE]
  ELSE IF profile.status = "pending"
    THEN [signOut |-> TRUE, error |-> PendingMessage, proceed |-> FALSE]
  ELSE IF profile.status = "rejected"
    THEN [signOut |-> FALSE, error |-> RejectedMessage, proceed |-> FALSE]
  ELSE [signOut |-> FALSE, error |-> "", proceed |-> TRUE]

\* The check without its test for pending.
FranchisorCheckPendingProceeds(profile) ==
  IF profile.user_type # "franchisor"
    THEN [signOut |-> FALSE, error |-> UnauthorizedMessage, proceed |-> FALSE]
  ELSE IF profile.status = "rejected"
    THEN [signOut |-> TRUE, error |-> RejectedMessage, proceed |-> FALSE]
  ELSE [signOut |-> FALSE, error |-> "", proceed |-> TRUE]

FranchisorCheck(profile) ==
  IF profile.user_type # "franchisor"
    THEN [signOut |-> FALSE, error |-> UnauthorizedMessage, proceed |-> FALSE]
  ELSE IF profile.status = "pending"
    THEN [signOut |-> TRUE, error |-> PendingMessage, proceed |-> FALSE]
  ELSE IF profile.status = "rejected"
    THEN [signOut |-> TRUE, error |-> RejectedMessage, proceed |-> FALSE]
  ELSE [signOut |-> FALSE, error |-> "", proceed |-> TRUE]

\* setLoading(true); setError(''); signInWithPassword.  A rejected sign-in
\* throws; the catch block shows 'Invalid email or password'.
FranchisorLoginSubmit(u, ok) ==
  /\ login.pc = "idle"
  /\ IF ok /\ u \in auth_users
       THEN /\ session' = u
            /\ login' = [IdleLogin EXCEPT !.form = "franchisor", !.pc = "read"]
       ELSE /\ session' = session
            /\ login' = [IdleLogin EXCEPT !.form = "franchisor",
                           !.error = InvalidCredentialsMessage,
                           !.outcome = "badcreds"]
  /\ UNCHANGED ExceptSession

\* The profile read of the signed-in user and the checks on it.  A failed
\* read, or no row (.single()), throws profileError before any check.
FranchisorLoginReadProfile(ok) ==
  /\ login.form = "franchisor"
  /\ login.pc = "read"
  /\ LET profile == IF session = NoUser THEN NoProfile ELSE profiles[session]
         check == FranchisorCheck(profile)
     IN IF ~ok \/ profile = NoProfile
          THEN /\ login' = [login EXCEPT !.pc = "idle",
                              !.error = ProfileErrorMessage,
                              !.outcome = "readfail"]
               /\ session' = session
          ELSE IF check.proceed
            THEN /\ login' = [login EXCEPT !.pc = "update", !.seen = profile]
                 /\ session' = session
            ELSE /\ login' = [login EXCEPT !.pc = "idle", !.seen = profile,
                                !.error = check.error, !.outcome = "authfail"]
                 /\ session' = IF check.signOut THEN NoUser ELSE session
  /\ UNCHANGED ExceptSession

\* The last_login update (its error is only logged) and the navigation.
FranchisorLoginFinish(ok) ==
  /\ login.form = "franchisor"
  /\ login.pc = "update"
  /\ login' = [login EXCEPT !.pc = "idle", !.nav = "/franchisor/dashboard",
                 !.outcome = "ok"]
  /\ UNCHANGED <<session, ExceptLogin>>

(***************************************************************************)
(* AdminLogin.handleSubmit                                                 *)
(***************************************************************************)
\* signInWithPassword; the form's error is not cleared at the start.
AdminLoginSubmit(u, ok) ==
  /\ login.pc = "idle"
  /\ IF ok /\ u \in auth_users
       THEN /\ session' = u
            /\ login' = [IdleLogin EXCEPT !.form = "admin", !.pc = "read",
                           !.error = IF login.form = "admin" THEN login.error ELSE ""]
       ELSE /\ session' = session
            /\ login' = [IdleLogin EXCEPT !.form = "admin",
                           !.error = SignInErrorMessage,
                           !.outcome = "badcreds"]
  /\ UNCHANGED ExceptSession

\* The profile read (its error is dropped: a failed read leaves profile null)
\* and the role check.
AdminLoginReadProfile(ok) ==
  /\ login.form = "admin"
  /\ login.pc = "read"
  /\ LET profile == IF ~ok \/ session = NoUser THEN NoProfile ELSE profiles[session]
     IN IF profile.user_type # "admin"
          THEN login' = [login EXCEPT !.pc = "idle", !.seen = profile,
                           !.error = UnauthorizedMessage, !.outcome = "authfail"]
          ELSE login' = [login EXCEPT !.pc = "idle", !.seen = profile,
                           !.nav = "/admin/dashboard", !.outcome = "ok"]
  /\ UNCHANGED <<session, ExceptLogin>>

\* UserMenu.handleSignOut: signOut, then the login page is shown afresh.
UserMenuSignOut ==
  /\ login.pc = "idle"
  /\ session # NoUser
  /\ session' = NoUser
  /\ login' = IdleLogin
  /\ UNCHANGED ExceptSession

\* Days that pass while nobody uses the application: more than the week of
\* the shortest ad.
LongWait == 8

LongWaitPasses ==
  /\ now <= MaxTime
  /\ now' = now + LongWait
  /\ UNCHANGED ExceptClock

\* Time passes.
Tick ==
  /\ now < MaxTime
  /\ now' = now + 1
  /\ UNCHANGED ExceptClock

(***************************************************************************)
(* Admin approvals: AdminAccountApprovals and AdminFranchiseApprovals      *)
(***************************************************************************)
\* Franchise ids: franchise 1 awaits approval, franchise 2 is approved, and
\* id 3 is the id of the next row inserted.
FranchiseIds == {1, 2, 3}

NoFranchise ==
  [exists |-> FALSE, status |-> "none", approved_at |-> Null,
   franchisor_id |-> NoUser, name |-> ""]

\* writeFailed records that the last update of handleApproval on the
\* franchise approvals page returned an error.
IdleAdminPage ==
  [pendingAccounts |-> {}, pendingFranchises |-> {}, pc |-> "idle",
   processingId |-> "", error |-> "", writeFailed |-> FALSE]

\* fetchPendingAccounts: .eq('user_type','franchisor').eq('status','pending')
PendingAccountIds ==
  {u \in Users : profiles[u].user_type = "franchisor" /\ profiles[u].status = "pending"}

\* fetchPendingFranchises: .eq('status', 'pending')
PendingFranchiseIds ==
  {f \in FranchiseIds : franchises[f].exists /\ franchises[f].status = "pending"}

\* The columns handleApproval writes (both pages write the same two).
ApprovalUpdate(row, approved) ==
  [row EXCEPT !.status = IF approved THEN "approved" ELSE "rejected",
              !.approved_at = IF approved THEN now ELSE Null]

\* fetchPendingAccounts on mount of AdminAccountApprovals (the profile read
\* or listUsers may fail: the list is kept and the error shown).
FetchPendingAccounts(a, ok) ==
  /\ adminPage[a].pc = "idle"
  /\ adminPage' = [adminPage EXCEPT ![a] =
        IF ok THEN [@ EXCEPT !.pendingAccounts = PendingAccountIds]
              ELSE [@ EXCEPT !.error = RemoteErrorMessage]]
  /\ UNCHANGED ExceptAdminPage

\* AdminAccountApprovals.handleApproval, up to the update: .eq('id', accountId)
AccountApprovalUpdate(a, id, approved, ok) ==
  /\ adminPage[a].pc = "idle"
  /\ id \in adminPage[a].pendingAccounts
  /\ IF ok
       THEN /\ profiles' = [profiles EXCEPT ![id] =
                   IF @ = NoProfile THEN @ ELSE ApprovalUpdate(@, approved)]
            /\ adminPage' = [adminPage EXCEPT ![a].pc = "accounts_refresh",
                                              ![a].processingId = id]
       ELSE /\ profiles' = profiles
            /\ adminPage' = [adminPage EXCEPT ![a].error = RemoteErrorMessage]
  /\ UNCHANGED <<session, login, franchises, ExceptApprovals>>

\* ... and its refresh of the list (await fetchPendingAccounts()).
AccountApprovalRefresh(a, ok) ==
  /\ adminPage[a].pc = "accounts_refresh"
  /\ adminPage' = [adminPage EXCEPT ![a] =
        IF ok THEN [@ EXCEPT !.pendingAccounts = PendingAccountIds,
                             !.pc = "idle", !.processingId = ""]
              ELSE [@ EXCEPT !.error = RemoteErrorMessage,
                             !.pc = "idle", !.processingId = ""]]
  /\ UNCHANGED ExceptAdminPage

\* fetchPendingFranchises on mount of AdminFranchiseApprovals (an error is
\* only logged).
FetchPendingFranchises(a) ==
  /\ adminPage[a].pc = "idle"
  /\ adminPage' = [adminPage EXCEPT ![a].pendingFranchises = PendingFranchiseIds]
  /\ UNCHANGED ExceptAdminPage

\* AdminFranchiseApprovals.handleApproval, up to the update: .eq('id', franchiseId).
\* Its catch writes the error to the console and sets no state.
FranchiseApprovalUpdate(a, id, approved, ok) ==
  /\ adminPage[a].pc = "idle"
  /\ id \in adminPage[a].pendingFranchises
  /\ IF ok
       THEN /\ franchises' = [franchises EXCEPT ![id] =
                   IF @.exists THEN ApprovalUpdate(@, approved) ELSE @]
            /\ adminPage' = [adminPage EXCEPT ![a].pc = "franchises_refresh",
                                              ![a].processingId = "franchise",
                                              ![a].writeFailed = FALSE]
       ELSE /\ franchises' = franchises
            /\ adminPage' = [adminPage EXCEPT ![a].writeFailed = TRUE]
  /\ UNCHANGED <<accountVars, ExceptApprovals>>

\* ... and its refresh of the list (await fetchPendingFranchises()).
FranchiseApprovalRefresh(a, ok) ==
  /\ adminPage[a].pc = "franchises_refresh"
  /\ adminPage' = [adminPage EXCEPT ![a] =
        IF ok THEN [@ EXCEPT !.pendingFranchises = PendingFranchiseIds,
                             !.pc = "idle", !.processingId = ""]
              ELSE [@ EXCEPT !.pc = "idle", !.processingId = ""]]
  /\ UNCHANGED ExceptAdminPage

(***************************************************************************)
(* Leads page of a franchisor (Leads.tsx)                                  *)
(***************************************************************************)
\* Updates of lead statuses that may be in flight at once.
MaxInFlight == 1
\* Leads of the franchisor whose page this is.
LeadIds == {1, 2}
\* Leads.tsx:12, the status enum, and Leads.tsx:325-329, the select's options.
LeadStatuses == {"new", "contacted", "qualified", "converted", "lost"}
\* The options the franchisor of the model picks in the select.
PickedStatuses == {"new", "contacted", "qualified"}

NoLead == [id |-> 0, status |-> "none"]

\* Sequence s without its i-th element.
RemoveAt(s, i) == SubSeq(s, 1, i - 1) \o SubSeq(s, i + 1, Len(s))

\* Leads.tsx:143-145, leads.map(...): the list with the status of leadId replaced.
MapLeadStatus(list, leadId, newStatus) ==
  [l \in DOMAIN list |-> IF l = leadId THEN newStatus ELSE list[l]]

\* Leads.tsx:156-159: the status updates a view of `lead` starts.
ViewLeadUpdatesAlways(lead) == <<[id |-> lead.id, status |-> "contacted"]>>

ViewLeadUpdates(lead) ==
  IF lead.status = "new"
    THEN <<[id |-> lead.id, status |-> "contacted"]>>
    ELSE <<>>

\* updateLeadStatus up to its await: the request is sent; `list` is the leads
\* array of the render whose handler was called (the closure's value).
StartedUpdate(u, list) ==
  [id |-> u.id, status |-> u.status, list |-> list, result |-> "sent"]

\* fetchLeads on mount: the franchisor's leads, or the error (the page is
\* then opened again).
FetchLeads(ok) ==
  /\ ~leadsPage.loaded
  /\ leadsPage' = IF ok
       THEN [leadsPage EXCEPT !.loaded = TRUE,
                              !.leads = [l \in LeadIds |-> leads[l].status]]
       ELSE [leadsPage EXCEPT !.error = RemoteErrorMessage]
  /\ UNCHANGED <<leads, leadReqs, ExceptLeads>>

\* handleViewLead(lead) for a row of the table: the modal opens, and the
\* updates of ViewLeadUpdates are started.  limit: the updates the model lets
\* be in flight at once.
HandleViewLead(l, limit) ==
  /\ leadsPage.loaded
  /\ ~leadsPage.isModalOpen
  /\ LET lead == [id |-> l, status |-> leadsPage.leads[l]]
         started == ViewLeadUpdates(lead)
     IN /\ Len(leadReqs) + Len(started) <= limit
        /\ leadsPage' = [leadsPage EXCEPT !.selectedLead = lead,
                                          !.isModalOpen = TRUE]
        /\ leadReqs' = leadReqs \o
             [i \in 1 .. Len(started) |->
                StartedUpdate(started[i], leadsPage.leads)]
  /\ UNCHANGED <<leads, ExceptLeads>>

\* The modal's onClose.
CloseLeadModal ==
  /\ leadsPage.isModalOpen
  /\ leadsPage' = [leadsPage EXCEPT !.selectedLead = NoLead,
                                    !.isModalOpen = FALSE]
  /\ UNCHANGED <<leads, leadReqs, ExceptLeads>>

\* The status select of a row: onChange calls updateLeadStatus(lead.id, value).
SelectLeadStatus(l, s, limit) ==
  /\ leadsPage.loaded
  /\ ~leadsPage.isModalOpen
  /\ s # leadsPage.leads[l]
  /\ Len(leadReqs) < limit
  /\ leadReqs' = Append(leadReqs,
       StartedUpdate([id |-> l, status |-> s], leadsPage.leads))
  /\ UNCHANGED <<leads, leadsPage, ExceptLeads>>

\* The database serves the update .update({status}).eq('id', leadId), or
\* answers with an error.
LeadUpdateServed(i, ok) ==
  /\ i \in 1 .. Len(leadReqs)
  /\ leadReqs[i].result = "sent"
  /\ leads' = IF ok THEN [leads EXCEPT ![leadReqs[i].id].status = leadReqs[i].status]
                    ELSE leads
  /\ leadReqs' = [leadReqs EXCEPT ![i].result = IF ok THEN "ok" ELSE "error"]
  /\ UNCHANGED <<leadsPage, ExceptLeads>>

\* updateLeadStatus after its await: setLeads(leads.map(...)) on success,
\* setError on failure.
LeadUpdateReturned(i) ==
  /\ i \in 1 .. Len(leadReqs)
  /\ leadReqs[i].result # "sent"
  /\ LET r == leadReqs[i]
     IN leadsPage' = IF r.result = "ok"
          THEN [leadsPage EXCEPT !.leads = MapLeadStatus(r.list, r.id, r.status)]
          ELSE [leadsPage EXCEPT !.error = RemoteErrorMessage]
  /\ leadReqs' = RemoveAt(leadReqs, i)
  /\ UNCHANGED <<leads, ExceptLeads>>

(***************************************************************************)
(* Calendar dates as the JavaScript Date object computes them.  A date is  *)
(* a local calendar day [year, month, day], month 0..11 as in getMonth();  *)
(* the time of day, which setDate and setMonth keep, is left out.          *)
(***************************************************************************)
IsLeapYear(y) == (y % 4 = 0 /\ y % 100 # 0) \/ y % 400 = 0

DaysInMonth(y, m) ==
  IF m = 1 THEN (IF IsLeapYear(y) THEN 29 ELSE 28)
  ELSE IF m \in {3, 5, 8, 10} THEN 30 ELSE 31

\* The Date constructor's normalisation of a month beyond December and of a
\* day beyond the end of its month: the surplus rolls over into the next
\* month (ECMAScript MakeDay).
RECURSIVE MakeDate(_, _, _)
MakeDate(y, m, d) ==
  IF m > 11 THEN MakeDate(y + 1, m - 12, d)
  ELSE IF d > DaysInMonth(y, m) THEN MakeDate(y, m + 1, d - DaysInMonth(y, m))
  ELSE [year |-> y, month |-> m, day |-> d]

\* date.setDate(date.getDate() + n) and date.setMonth(date.getMonth() + n)
SetDatePlus(date, n) == MakeDate(date.year, date.month, date.day + n)
SetMonthPlus(date, n) == MakeDate(date.year, date.month + n, date.day)

\* The day the clock shows: new Date().
Epoch == [year |-> 2025, month |-> 0, day |-> 31]
Today == SetDatePlus(Epoch, now)

(***************************************************************************)
(* Featured ads: the franchisor's purchase (Franchises.tsx, FeaturedAds)   *)
(* and the admin's page (part_004, FeaturedAds)                            *)
(***************************************************************************)
\* Rows of featured_ads the franchisor buys while the admin works on the
\* table; a purchase that is repeated may insert one row more.
MaxAds == 1
AdIds == 1 .. MaxAds + 1
\* AdvertisingSettings.tsx:22-27, the durations of the pricing tiers and
\* their default prices (in pence).
Durations == {"1w", "2w", "1m", "6m"}
DefaultPricing == [d \in Durations |->
  CASE d = "1w" -> 9999 [] d = "2w" -> 17999 [] d = "1m" -> 29999 [] OTHER -> 149999]

\* Franchises.tsx:518-534, the end date of an ad that starts on `start`.
EndDate(start, duration) ==
  CASE duration = "1w" -> SetDatePlus(start, 7)
    [] duration = "2w" -> SetDatePlus(start, 14)
    [] duration = "1m" -> SetMonthPlus(start, 1)
    [] duration = "6m" -> SetMonthPlus(start, 6)
    [] OTHER -> start

\* Franchises.tsx:539-546, the row handlePaymentConfirm inserts.  The table
\* has no duration column: `duration` records the selection the row was
\* made for.
NewAdBothPending(id, franchise, tier, duration) ==
  [id |-> id, franchise_id |-> franchise, amount |-> tier,
   start_date |-> Today, end_date |-> EndDate(Today, duration),
   status |-> "active", payment_status |-> "pending", duration |-> duration]

NewAd(id, franchise, tier, duration) ==
  [id |-> id, franchise_id |-> franchise, amount |-> tier,
   start_date |-> Today, end_date |-> EndDate(Today, duration),
   status |-> "pending_payment", payment_status |-> "pending",
   duration |-> duration]

\* part_004:159-162, the columns handlePaymentReceived writes.
MarkPaid(row) == [row EXCEPT !.payment_status = "completed", !.status = "active"]

IdleAdsPage ==
  [franchises |-> {}, pricingTiers |-> <<>>, selectedFranchise |-> 0,
   selectedDuration |-> "", showDurationModal |-> FALSE,
   isPaymentModalOpen |-> FALSE, processing |-> FALSE, pc |-> "mount",
   error |-> "", adId |-> 0, checkoutAmount |-> Null, trace |-> <<>>]

IdleAdminAds == [ads |-> {}, selectedAds |-> {}, pc |-> "mount", error |-> ""]

\* The ids not yet given to a row (the database's key generator).
FreeAdIds == {i \in AdIds : \A r \in featured_ads : r.id < i}

\* The table has room for a row of the MaxAds the admin's page is checked
\* with.
AdsWithinBound == \E i \in 1 .. MaxAds : \A r \in featured_ads : r.id < i

\* Franchises.tsx:537-548, .insert({...}).select().single(): the table after
\* the insert of `row`.  No column of the row but its generated id is unique.
AdsAfterInsertOncePerSelection(rows, row) ==
  IF \E r \in rows : r.franchise_id = row.franchise_id /\ r.duration = row.duration
    THEN rows ELSE rows \cup {row}

AdsAfterInsert(rows, row) == rows \cup {row}

\* The page's mount: fetchFranchises (the approved franchises of the
\* signed-in franchisor, fa in this model) and fetchPricingTiers (the
\* featured_pricing of advertising_settings), each with its own outcome.
AdsPageMount(okFranchises, okTiers) ==
  /\ adsPage.pc = "mount"
  /\ adsPage' = [adsPage EXCEPT
       !.pc = "idle",
       !.franchises = IF okFranchises
         THEN {f \in FranchiseIds : /\ franchises[f].exists
                                    /\ franchises[f].franchisor_id = "fa"
                                    /\ franchises[f].status = "approved"}
         ELSE @,
       !.pricingTiers = IF okTiers THEN advertising_settings ELSE @,
       !.error = IF okFranchises /\ okTiers THEN @ ELSE RemoteErrorMessage]
  /\ UNCHANGED <<featured_ads, adminAds, ExceptAds>>

\* handleCreateAd
HandleCreateAd ==
  /\ adsPage.pc = "idle"
  /\ ~adsPage.showDurationModal
  /\ ~adsPage.isPaymentModalOpen
  /\ adsPage' = [adsPage EXCEPT !.selectedFranchise = 0, !.selectedDuration = "",
                                !.showDurationModal = TRUE]
  /\ UNCHANGED <<featured_ads, adminAds, ExceptAds>>

\* The duration modal's franchise select and duration buttons.
SelectFranchiseAndDuration(f, d) ==
  /\ adsPage.showDurationModal
  /\ f \in adsPage.franchises
  /\ d \in DOMAIN adsPage.pricingTiers
  /\ adsPage' = [adsPage EXCEPT !.selectedFranchise = f, !.selectedDuration = d]
  /\ UNCHANGED <<featured_ads, adminAds, ExceptAds>>

\* handleDurationSelected (the button is disabled without both selections)
HandleDurationSelected ==
  /\ adsPage.showDurationModal
  /\ adsPage.selectedFranchise # 0
  /\ adsPage.selectedDuration # ""
  /\ adsPage' = [adsPage EXCEPT !.showDurationModal = FALSE,
                                !.isPaymentModalOpen = TRUE]
  /\ UNCHANGED <<featured_ads, adminAds, ExceptAds>>

\* onClose of a modal whose buttons are never disabled.
ClosePaymentModalWhileProcessing ==
  /\ adsPage.isPaymentModalOpen
  /\ adsPage' = [adsPage EXCEPT !.isPaymentModalOpen = FALSE]
  /\ UNCHANGED <<featured_ads, adminAds, ExceptAds>>

\* The payment modal's onClose (disabled while processing).
ClosePaymentModal ==
  /\ adsPage.isPaymentModalOpen
  /\ ~adsPage.processing
  /\ adsPage' = [adsPage EXCEPT !.isPaymentModalOpen = FALSE]
  /\ UNCHANGED <<featured_ads, adminAds, ExceptAds>>

\* The remote calls of the running, or last, handlePaymentConfirm that have
\* returned, in order, each with its outcome.
Returned(page, call, ok) == Append(page.trace, [call |-> call, ok |-> ok])

\* Franchises.tsx:572-576, handlePaymentConfirm after the checkout-session
\* request: an error response is thrown to the catch, a session id goes on to
\* the redirect.
AfterCheckoutAlwaysRedirects(page, ok) == [page EXCEPT !.pc = "redirect"]

AfterCheckout(page, ok) ==
  IF ok THEN [page EXCEPT !.pc = "redirect"]
        ELSE [page EXCEPT !.pc = "idle", !.processing = FALSE,
                          !.error = "Failed to create checkout session"]

\* handlePaymentConfirm up to the insert into featured_ads.
PaymentConfirmInsert(ok) ==
  /\ adsPage.isPaymentModalOpen
  /\ ~adsPage.processing
  /\ adsPage.pc = "idle"
  /\ IF adsPage.selectedDuration \notin DOMAIN adsPage.pricingTiers
       THEN /\ adsPage' = [adsPage EXCEPT !.error = "Invalid duration selected",
                                          !.trace = <<>>]
            /\ featured_ads' = featured_ads
       ELSE IF ok /\ FreeAdIds # {}
         THEN LET id == CHOOSE i \in FreeAdIds : \A j \in FreeAdIds : i <= j
              IN /\ featured_ads' = AdsAfterInsert(featured_ads,
                      NewAd(id, adsPage.selectedFranchise,
                            adsPage.pricingTiers[adsPage.selectedDuration],
                            adsPage.selectedDuration))
                 /\ adsPage' = [adsPage EXCEPT !.processing = TRUE, !.error = "",
                                               !.pc = "checkout", !.adId = id,
                                               !.trace = <<[call |-> "insert", ok |-> TRUE]>>]
         ELSE /\ adsPage' = [adsPage EXCEPT !.error = RemoteErrorMessage,
                                            !.trace = <<[call |-> "insert", ok |-> FALSE]>>]
              /\ featured_ads' = featured_ads
  /\ UNCHANGED <<adminAds, ExceptAds>>

\* ... the request of the checkout session (getUser, POST
\* /api/create-checkout-session); checkoutAmount records the amount of the
\* request's body, selectedTier.price ...
PaymentConfirmCheckout(ok) ==
  /\ adsPage.pc = "checkout"
  /\ adsPage' = AfterCheckout(
       [adsPage EXCEPT !.checkoutAmount = adsPage.pricingTiers[adsPage.selectedDuration],
                       !.trace = Returned(adsPage, "checkout", ok)], ok)
  /\ UNCHANGED <<featured_ads, adminAds, ExceptAds>>

\* ... and the redirect to the payment processor.
PaymentConfirmRedirect(ok) ==
  /\ adsPage.pc = "redirect"
  /\ adsPage' = IF ok
       THEN [adsPage EXCEPT !.pc = "idle", !.processing = FALSE,
                            !.selectedFranchise = 0, !.selectedDuration = "",
                            !.isPaymentModalOpen = FALSE,
                            !.trace = Returned(adsPage, "redirect", TRUE)]
       ELSE [adsPage EXCEPT !.pc = "idle", !.processing = FALSE,
                            !.error = "Stripe failed to load",
                            !.trace = Returned(adsPage, "redirect", FALSE)]
  /\ UNCHANGED <<featured_ads, adminAds, ExceptAds>>

\* The admin's fetchAds on mount.
AdminFetchAds(ok) ==
  /\ adminAds.pc = "mount"
  /\ adminAds' = IF ok
       THEN [adminAds EXCEPT !.ads = {r.id : r \in featured_ads}, !.pc = "idle"]
       ELSE [adminAds EXCEPT !.error = RemoteErrorMessage, !.pc = "idle"]
  /\ UNCHANGED <<featured_ads, adsPage, ExceptAds>>

\* handleSelectAd: the checkbox of a listed ad.
HandleSelectAd(id) ==
  /\ adminAds.pc = "idle"
  /\ id \in adminAds.ads
  /\ adminAds' = [adminAds EXCEPT !.selectedAds =
       IF id \in @ THEN @ \ {id} ELSE @ \cup {id}]
  /\ UNCHANGED <<featured_ads, adsPage, ExceptAds>>

\* handlePaymentReceived up to the update .in('id', selectedAds).
PaymentReceivedUpdate(ok) ==
  /\ adminAds.pc = "idle"
  /\ adminAds.selectedAds # {}
  /\ IF ok
       THEN /\ featured_ads' =
                 {IF r.id \in adminAds.selectedAds THEN MarkPaid(r) ELSE r :
                    r \in featured_ads}
            /\ adminAds' = [adminAds EXCEPT !.pc = "paid_refresh"]
       ELSE /\ featured_ads' = featured_ads
            /\ adminAds' = [adminAds EXCEPT !.error = RemoteErrorMessage]
  /\ UNCHANGED <<adsPage, ExceptAds>>

\* handleDeleteAds up to the delete .in('id', selectedAds).
DeleteAdsUpdate(ok) ==
  /\ adminAds.pc = "idle"
  /\ adminAds.selectedAds # {}
  /\ IF ok
       THEN /\ featured_ads' = {r \in featured_ads : r.id \notin adminAds.selectedAds}
            /\ adminAds' = [adminAds EXCEPT !.pc = "deleted_refresh"]
       ELSE /\ featured_ads' = featured_ads
            /\ adminAds' = [adminAds EXCEPT !.error = RemoteErrorMessage]
  /\ UNCHANGED <<adsPage, ExceptAds>>

\* The refresh of both handlers: await fetchAds(), then the selection is
\* cleared (fetchAds catches its own error).
AdminAdsRefresh(ok) ==
  /\ adminAds.pc \in {"paid_refresh", "deleted_refresh"}
  /\ adminAds' = [adminAds EXCEPT
       !.ads = IF ok THEN {r.id : r \in featured_ads} ELSE @,
       !.error = IF ok THEN @ ELSE RemoteErrorMessage,
       !.selectedAds = {},
       !.pc = "idle"]
  /\ UNCHANGED <<featured_ads, adsPage, ExceptAds>>

(***************************************************************************)
(* The franchise forms: AddFranchise (part_001) and EditFranchise          *)
(* (part_000).  forms[e] is the page open in the browser of editor e.      *)
(***************************************************************************)
Editors == {"e1", "e2"}
\* The model follows a form through MaxSubmits submits and lets a form hold
\* MaxEntries FAQ, testimonial and success-story entries in total.
MaxSubmits == 1
MaxEntries == 3

\* franchise_categories: two main categories, each with one sub-category.
Categories == {"m1", "m2", "s1", "s2"}
ParentOf(c) == CASE c = "s1" -> "m1" [] c = "s2" -> "m2" [] OTHER -> ""

\* The three child tables, in the order handleSubmit writes them.
KindOrder == <<"faq", "testimonial", "story">>
Kinds == {"faq", "testimonial", "story"}
\* What a text field holds: nothing or some text.
Texts == {"", "x"}

\* A form entry: question/answer, authorName/content or title/content as
\* first/second; success stories also carry imageFile and existingImageUrl.
EmptyEntry ==
  [first |-> "", second |-> "", imageFile |-> FALSE, existingImageUrl |-> ""]

\* part_000:272,292,312 and part_001:178,195,212: `if (a && b)`
FullyPopulatedFirstOnly(entry) == entry.first # ""

FullyPopulated(entry) == entry.first # "" /\ entry.second # ""

NoDetails == [exists |-> FALSE, main_image_url |-> ""]

\* The useState initial values of both pages.  loaded, loadedMainImageUrl,
\* calls, thrown, submits and erased record the page's history: the outcome
\* of fetchFranchise, the url it read, the remote calls the current submit
\* has made, the call whose failure made it throw, the submits so far, the
\* other editors whose rows the current submit has deleted, and the remote
\* calls of the current submit that returned an error.
IdleForm ==
  [page |-> "closed", id |-> 0, pc |-> "closed", error |-> "", nav |-> "",
   categories |-> {}, name |-> "", mainImageFile |-> FALSE,
   existingMainImageUrl |-> "", galleryFiles |-> 0,
   selectedMainCategory |-> "", selectedSubCategories |-> <<>>,
   entries |-> [k \in Kinds |-> <<EmptyEntry>>],
   mainImageUrl |-> "", franchiseId |-> 0, storyImageUrl |-> "", k |-> 0, i |-> 0,
   loaded |-> "no", loadedMainImageUrl |-> "", calls |-> {}, thrown |-> "",
   submits |-> 0, erased |-> {}, failed |-> {}]

\* The entries a form holds in total.
EntryCount(f) ==
  Len(f.entries["faq"]) + Len(f.entries["testimonial"]) + Len(f.entries["story"])

\* fetchFranchise's mapping of the stored child rows to form entries.
RowsToEntries(rows) ==
  [j \in 1 .. Len(rows) |->
     [first |-> rows[j].first, second |-> rows[j].second, imageFile |-> FALSE,
      existingImageUrl |-> rows[j].image_url]]

\* AddFranchise's mount: the form with its initial values; fetchCategories.
OpenAddFranchise(e, okCategories) ==
  /\ forms[e].page = "closed"
  /\ forms' = [forms EXCEPT ![e] =
       [IdleForm EXCEPT !.page = "add", !.pc = "editing",
                        !.categories = IF okCategories THEN Categories ELSE {},
                        !.error = IF okCategories THEN "" ELSE "Failed to load categories"]]
  /\ UNCHANGED <<franchises, tableVars, ExceptForms>>

\* EditFranchise's mount for /franchisor/franchises/:id/edit: fetchFranchise
\* and fetchCategories (whose error is ignored).
OpenEditFranchise(e, id, okFranchise, okCategories) ==
  /\ forms[e].page = "closed"
  /\ franchises[id].exists
  /\ LET base == [IdleForm EXCEPT !.page = "edit", !.pc = "editing", !.id = id,
                    !.categories = IF okCategories THEN Categories ELSE {}]
         details == franchise_details[id]
         mapped == franchise_category_mappings[id]
         mains == SelectSeq(mapped, LAMBDA c : ParentOf(c) = "")
         fetched == [base EXCEPT
           !.loaded = "ok",
           !.name = franchises[id].name,
           !.existingMainImageUrl = IF details.exists THEN details.main_image_url ELSE @,
           !.loadedMainImageUrl = IF details.exists THEN details.main_image_url ELSE @,
           !.selectedMainCategory = IF mains # <<>> THEN Head(mains) ELSE @,
           !.selectedSubCategories = SelectSeq(mapped, LAMBDA c : ParentOf(c) # ""),
           !.entries = [k \in Kinds |->
              IF child_rows[id][k] # <<>> THEN RowsToEntries(child_rows[id][k])
              ELSE @[k]]]
     IN forms' = [forms EXCEPT ![e] =
          IF okFranchise THEN fetched
          ELSE [base EXCEPT !.loaded = "failed", !.error = RemoteErrorMessage]]
  /\ UNCHANGED <<franchises, tableVars, ExceptForms>>

\* A page accepts input while it is shown and no submit is running; the
\* model follows it until its last submit.
Editing(e) == forms[e].pc = "editing" /\ forms[e].submits < MaxSubmits

\* setName: the name field's onChange.
SetName(e, v) ==
  /\ Editing(e)
  /\ forms[e].name # v
  /\ forms' = [forms EXCEPT ![e].name = v]
  /\ UNCHANGED <<franchises, tableVars, ExceptForms>>

\* The main image input's onChange: part_000:477 takes the chosen file or
\* null; handleMainImageChange (part_001:241-245) only takes a chosen file.
SetMainImageFile(e, file) ==
  /\ Editing(e)
  /\ forms[e].page = "add" => file
  /\ forms[e].mainImageFile # file
  /\ forms' = [forms EXCEPT ![e].mainImageFile = file]
  /\ UNCHANGED <<franchises, tableVars, ExceptForms>>

\* handleGalleryChange (AddFranchise only): the number of files chosen.
HandleGalleryChange(e, n) ==
  /\ Editing(e)
  /\ forms[e].page = "add"
  /\ forms[e].galleryFiles # n
  /\ forms' = [forms EXCEPT ![e].galleryFiles = n]
  /\ UNCHANGED <<franchises, tableVars, ExceptForms>>

\* handleMainCategoryChange: what becomes of the selected sub-categories.
SubCategoriesKept(prev) == prev

SubCategoriesAfterMainChange(prev) == <<>>

\* handleMainCategoryChange: the select offers "" and the main categories.
HandleMainCategoryChange(e, categoryId) ==
  /\ Editing(e)
  /\ categoryId = "" \/ (categoryId \in forms[e].categories /\ ParentOf(categoryId) = "")
  /\ forms[e].selectedMainCategory # categoryId
  /\ forms' = [forms EXCEPT
       ![e].selectedMainCategory = categoryId,
       ![e].selectedSubCategories = SubCategoriesAfterMainChange(@)]
  /\ UNCHANGED <<franchises, tableVars, ExceptForms>>

\* handleSubCategoryChange: the checkboxes of the selected main category's
\* sub-categories toggle membership.
HandleSubCategoryChange(e, categoryId) ==
  /\ Editing(e)
  /\ forms[e].selectedMainCategory # ""
  /\ categoryId \in forms[e].categories
  /\ ParentOf(categoryId) = forms[e].selectedMainCategory
  /\ forms' = [forms EXCEPT ![e].selectedSubCategories =
       IF \E j \in 1 .. Len(@) : @[j] = categoryId
         THEN SelectSeq(@, LAMBDA c : c # categoryId)
         ELSE Append(@, categoryId)]
  /\ UNCHANGED <<franchises, tableVars, ExceptForms>>

\* The "Add FAQ", "Add Testimonial" and "Add Success Story" buttons.
AddEntry(e, kind) ==
  /\ Editing(e)
  /\ EntryCount(forms[e]) < MaxEntries
  /\ forms' = [forms EXCEPT ![e].entries[kind] = Append(@, EmptyEntry)]
  /\ UNCHANGED <<franchises, tableVars, ExceptForms>>

\* The entries' "Remove" buttons.
RemoveEntry(e, kind, index) ==
  /\ Editing(e)
  /\ index \in 1 .. Len(forms[e].entries[kind])
  /\ forms' = [forms EXCEPT ![e].entries[kind] = RemoveAt(@, index)]
  /\ UNCHANGED <<franchises, tableVars, ExceptForms>>

\* The entries' text inputs (handleFAQChange and its like).
SetEntryField(e, kind, index, field, value) ==
  /\ Editing(e)
  /\ index \in 1 .. Len(forms[e].entries[kind])
  /\ forms[e].entries[kind][index][field] # value
  /\ forms' = [forms EXCEPT ![e].entries[kind][index][field] = value]
  /\ UNCHANGED <<franchises, tableVars, ExceptForms>>

\* A success story's image input.
SetStoryImageFile(e, index, file) ==
  /\ Editing(e)
  /\ index \in 1 .. Len(forms[e].entries["story"])
  /\ forms[e].entries["story"][index].imageFile # file
  /\ forms' = [forms EXCEPT ![e].entries["story"][index].imageFile = file]
  /\ UNCHANGED <<franchises, tableVars, ExceptForms>>

(***************************************************************************)
(* handleSubmit of both pages, one step per remote call.  pc names the     *)
(* call awaited; k and i are the child table and the loop index.           *)
(***************************************************************************)
\* part_000:199 `let mainImageUrl = existingMainImageUrl` and part_001:110
\* `let mainImageUrl = ''`.
InitialMainImageUrlEmpty(f) == ""

InitialMainImageUrl(f) == IF f.page = "edit" THEN f.existingMainImageUrl ELSE ""

\* [selectedMainCategory, ...selectedSubCategories].filter(Boolean)
CategoryIds(f) ==
  SelectSeq(<<f.selectedMainCategory>> \o f.selectedSubCategories,
            LAMBDA c : c # "")

Position(pc, k, i) == [pc |-> pc, k |-> k, i |-> i]

\* The next remote call from entry i of child table k on: the insert (or,
\* for a success story with a new image, the upload) of the next entry that
\* passes the test; then table k + 1, which EditFranchise first empties;
\* after the last table, navigate.
RECURSIVE AfterEntries(_, _, _)
RECURSIVE StartKind(_, _)
AfterEntries(f, k, i) ==
  LET entries == f.entries[KindOrder[k]]
  IN IF i > Len(entries) THEN StartKind(f, k + 1)
     ELSE IF FullyPopulated(entries[i])
       THEN Position(IF entries[i].imageFile THEN "upload_story" ELSE "insert_child",
                     k, i)
       ELSE AfterEntries(f, k, i + 1)

StartKind(f, k) ==
  IF k > Len(KindOrder) THEN Position("done", 0, 0)
  ELSE IF f.page = "edit" THEN Position("delete_children", k, 0)
  ELSE AfterEntries(f, k, 1)

\* The next remote call from gallery file i on (AddFranchise only).
AfterGallery(f, i) ==
  IF f.page = "add" /\ i <= f.galleryFiles THEN Position("upload_gallery", 0, i)
  ELSE StartKind(f, 1)

\* The next remote call from category id i on.
AfterMappings(f, i) ==
  IF i <= Len(CategoryIds(f)) THEN Position("insert_mapping", 0, i)
  ELSE AfterGallery(f, 1)

\* After getUser, or at the start of EditFranchise's submit.
AfterGetUser(f) ==
  Position(IF f.mainImageFile THEN "upload_main" ELSE "write_franchise", 0, 0)

\* A remote call returned and the handler goes on to the call at pos, or
\* navigates away.
Succeeded(f, call, pos) ==
  [f EXCEPT !.calls = @ \cup {call}, !.pc = pos.pc, !.k = pos.k, !.i = pos.i,
            !.nav = IF pos.pc # "done" THEN @
                    ELSE IF f.page = "add" THEN "/franchisor/dashboard"
                    ELSE "/franchisor/franchises"]

\* A remote call returned an error that the handler does not look at.
Ignored(f, call, ok) == IF ok THEN f ELSE [f EXCEPT !.failed = @ \cup {call}]

\* A remote call failed and the handler throws: catch sets the error and
\* finally re-enables the form.
Failed(f, call, message) ==
  [f EXCEPT !.calls = @ \cup {call}, !.pc = "editing", !.k = 0, !.i = 0,
            !.error = message, !.thrown = call, !.failed = @ \cup {call}]

\* The id the database gives to the next row of franchises.
FreeFranchiseIds == {id \in FranchiseIds : ~franchises[id].exists}

\* Rows stored before a submit are marked as such while it runs.
MarkOld(rows) == [j \in 1 .. Len(rows) |-> [rows[j] EXCEPT !.old = TRUE]]

\* The submit button: the browser checks the required fields, then
\* handleSubmit runs up to its first remote call.
SubmitStart(e) ==
  /\ Editing(e)
  /\ forms[e].name # ""
  /\ forms[e].selectedMainCategory \in forms[e].categories
  /\ LET f == forms[e]
         started == [f EXCEPT !.error = "", !.calls = {}, !.thrown = "", !.erased = {},
                              !.failed = {},
                              !.submits = @ + 1,
                              !.mainImageUrl = InitialMainImageUrl(f),
                              !.franchiseId = f.id, !.storyImageUrl = ""]
     IN forms' = [forms EXCEPT ![e] =
          IF f.page = "add" THEN [started EXCEPT !.pc = "get_user"]
          ELSE Succeeded(started, "start", AfterGetUser(f))]
  /\ child_rows' = [id \in FranchiseIds |-> [k \in Kinds |-> MarkOld(child_rows[id][k])]]
  /\ UNCHANGED <<franchises, franchise_details, franchise_category_mappings,
                 franchise_gallery, storage, ExceptForms>>

\* part_001:106-107 supabase.auth.getUser()
SubmitGetUser(e, ok) ==
  /\ forms[e].pc = "get_user"
  /\ forms' = [forms EXCEPT ![e] =
       IF ok THEN Succeeded(@, "get_user", AfterGetUser(@))
       ELSE Failed(@, "get_user", "Not authenticated")]
  /\ UNCHANGED <<franchises, tableVars, ExceptForms>>

\* part_000:200-216 and part_001:111-113: the upload of the main image.
SubmitUploadMainImage(e, ok) ==
  /\ forms[e].pc = "upload_main"
  /\ IF ok
       THEN /\ storage' = storage \cup {"main-images/new"}
            /\ forms' = [forms EXCEPT ![e] =
                 Succeeded([@ EXCEPT !.mainImageUrl = "main-images/new"],
                           "upload_main", Position("write_franchise", 0, 0))]
       ELSE /\ storage' = storage
            /\ forms' = [forms EXCEPT ![e] = Failed(@, "upload_main", RemoteErrorMessage)]
  /\ UNCHANGED <<franchises, franchise_details, franchise_category_mappings,
                 franchise_gallery, child_rows, ExceptForms>>

\* part_001:116-129 the insert of the franchise (the signed-in franchisor is
\* fa); part_000:219-228 the update of name, location and updated_at.
\* The row with its moderation reset by the edit.
EditedFranchiseBackToPending(row, f) ==
  [row EXCEPT !.name = f.name, !.status = "pending", !.approved_at = Null]

\* part_000:219-226: the columns the update of EditFranchise sets (name; the
\* model has no location and no updated_at).
EditedFranchise(row, f) == [row EXCEPT !.name = f.name]

SubmitWriteFranchise(e, ok) ==
  /\ forms[e].pc = "write_franchise"
  /\ LET f == forms[e]
         id == IF f.page = "edit" THEN f.id
               ELSE CHOOSE x \in FreeFranchiseIds : \A y \in FreeFranchiseIds : x <= y
     IN IF ok /\ (f.page = "add" => FreeFranchiseIds # {})
          THEN /\ franchises' = [franchises EXCEPT ![id] =
                    IF f.page = "edit" THEN EditedFranchise(@, f)
                    ELSE [exists |-> TRUE, status |-> "pending", approved_at |-> Null,
                          franchisor_id |-> "fa", name |-> f.name]]
               /\ forms' = [forms EXCEPT ![e] =
                    Succeeded([f EXCEPT !.franchiseId = id], "write_franchise",
                              Position("write_details", 0, 0))]
          ELSE /\ franchises' = franchises
               /\ forms' = [forms EXCEPT ![e] = Failed(f, "write_franchise", RemoteErrorMessage)]
  /\ UNCHANGED <<tableVars, ExceptForms>>

\* part_001:132-144 the insert, part_000:231-243 the upsert of the details.
SubmitWriteDetails(e, ok) ==
  /\ forms[e].pc = "write_details"
  /\ LET f == forms[e]
     IN IF ok
          THEN /\ franchise_details' = [franchise_details EXCEPT ![f.franchiseId] =
                    [exists |-> TRUE, main_image_url |-> f.mainImageUrl]]
               /\ forms' = [forms EXCEPT ![e] =
                    Succeeded(f, "write_details",
                              IF f.page = "edit" THEN Position("delete_mappings", 0, 0)
                              ELSE AfterMappings(f, 1))]
          ELSE /\ franchise_details' = franchise_details
               /\ forms' = [forms EXCEPT ![e] = Failed(f, "write_details", RemoteErrorMessage)]
  /\ UNCHANGED <<franchises, franchise_category_mappings, franchise_gallery,
                 child_rows, storage, ExceptForms>>

\* part_000:247-250: the delete of the mappings; its result is not read.
SubmitDeleteMappings(e, ok) ==
  /\ forms[e].pc = "delete_mappings"
  /\ LET f == forms[e]
     IN /\ franchise_category_mappings' =
             IF ok THEN [franchise_category_mappings EXCEPT ![f.franchiseId] = <<>>]
             ELSE franchise_category_mappings
        /\ forms' = [forms EXCEPT ![e] =
             Succeeded(Ignored(f, "delete_mappings", ok), "delete_mappings",
                       AfterMappings(f, 1))]
  /\ UNCHANGED <<franchises, franchise_details, franchise_gallery, child_rows,
                 storage, ExceptForms>>

\* part_000:254-263 and part_001:148-159: one category mapping.
SubmitInsertMapping(e, ok) ==
  /\ forms[e].pc = "insert_mapping"
  /\ LET f == forms[e]
     IN IF ok
          THEN /\ franchise_category_mappings' =
                    [franchise_category_mappings EXCEPT ![f.franchiseId] =
                       Append(@, CategoryIds(f)[f.i])]
               /\ forms' = [forms EXCEPT ![e] =
                    Succeeded(f, "insert_mapping", AfterMappings(f, f.i + 1))]
          ELSE /\ franchise_category_mappings' = franchise_category_mappings
               /\ forms' = [forms EXCEPT ![e] = Failed(f, "insert_mapping", RemoteErrorMessage)]
  /\ UNCHANGED <<franchises, franchise_details, franchise_gallery, child_rows,
                 storage, ExceptForms>>

\* part_001:163 the upload of a gallery file ...
SubmitUploadGallery(e, ok) ==
  /\ forms[e].pc = "upload_gallery"
  /\ IF ok
       THEN /\ storage' = storage \cup {"gallery/new"}
            /\ forms' = [forms EXCEPT ![e] =
                 Succeeded(@, "upload_gallery", Position("insert_gallery", 0, @.i))]
       ELSE /\ storage' = storage
            /\ forms' = [forms EXCEPT ![e] = Failed(@, "upload_gallery", RemoteErrorMessage)]
  /\ UNCHANGED <<franchises, franchise_details, franchise_category_mappings,
                 franchise_gallery, child_rows, ExceptForms>>

\* ... and part_001:164-173 the insert of its row.
SubmitInsertGallery(e, ok) ==
  /\ forms[e].pc = "insert_gallery"
  /\ LET f == forms[e]
     IN IF ok
          THEN /\ franchise_gallery' = [franchise_gallery EXCEPT ![f.franchiseId] =
                    Append(@, "gallery/new")]
               /\ forms' = [forms EXCEPT ![e] =
                    Succeeded(f, "insert_gallery", AfterGallery(f, f.i + 1))]
          ELSE /\ franchise_gallery' = franchise_gallery
               /\ forms' = [forms EXCEPT ![e] = Failed(f, "insert_gallery", RemoteErrorMessage)]
  /\ UNCHANGED <<franchises, franchise_details, franchise_category_mappings,
                 child_rows, storage, ExceptForms>>

\* .delete().eq('franchise_id', id): what is left of the franchise's rows of
\* one table when editor e deletes them.  Every row goes, whoever inserted it.
RowsAfterDeleteOthersKept(rows, e) ==
  SelectSeq(rows, LAMBDA r : r.by \notin {"", e})

RowsAfterDelete(rows, e) == <<>>

\* The editors other than e who inserted some of rows.
InsertedByOthers(rows, e) ==
  {rows[j].by : j \in 1 .. Len(rows)} \ {"", e}

\* part_000:266-269, 286-289, 306-309: the delete of the franchise's rows
\* of child table k; its result is not read.
SubmitDeleteChildren(e, ok) ==
  /\ forms[e].pc = "delete_children"
  /\ LET f == forms[e]
         rows == child_rows[f.franchiseId][KindOrder[f.k]]
         left == IF ok THEN RowsAfterDelete(rows, e) ELSE rows
     IN /\ child_rows' = [child_rows EXCEPT ![f.franchiseId][KindOrder[f.k]] = left]
        /\ forms' = [forms EXCEPT ![e] =
             Succeeded([Ignored(f, "delete_children", ok) EXCEPT
                          !.erased = IF ok THEN @ \cup InsertedByOthers(rows, e) ELSE @],
                       "delete_children", AfterEntries(f, f.k, 1))]
  /\ UNCHANGED <<franchises, franchise_details, franchise_category_mappings,
                 franchise_gallery, storage, ExceptForms>>

\* part_000:315-331 and part_001:214-216: the upload of a story's image.
SubmitUploadStoryImage(e, ok) ==
  /\ forms[e].pc = "upload_story"
  /\ IF ok
       THEN /\ storage' = storage \cup {"success-stories/new"}
            /\ forms' = [forms EXCEPT ![e] =
                 Succeeded([@ EXCEPT !.storyImageUrl = "success-stories/new"],
                           "upload_story", Position("insert_child", @.k, @.i))]
       ELSE /\ storage' = storage
            /\ forms' = [forms EXCEPT ![e] = Failed(@, "upload_story", RemoteErrorMessage)]
  /\ UNCHANGED <<franchises, franchise_details, franchise_category_mappings,
                 franchise_gallery, child_rows, ExceptForms>>

\* The row inserted for entry i of the form of editor e; `old`, `entry` and
\* `by` record that the running submit wrote it, for which entry, and whose
\* submit it was.
ChildRow(e, entry, i, storyImageUrl) ==
  [first |-> entry.first, second |-> entry.second,
   image_url |-> IF entry.imageFile THEN storyImageUrl ELSE entry.existingImageUrl,
   old |-> FALSE, entry |-> i, by |-> e]

\* part_000:273-281, 293-301, 333-342 and part_001:179-189, 196-206,
\* 218-229: the insert of one FAQ, testimonial or success story.
SubmitInsertChild(e, ok) ==
  /\ forms[e].pc = "insert_child"
  /\ LET f == forms[e]
         kind == KindOrder[f.k]
     IN IF ok
          THEN /\ child_rows' = [child_rows EXCEPT ![f.franchiseId][kind] =
                    Append(@, ChildRow(e, f.entries[kind][f.i], f.i, f.storyImageUrl))]
               /\ forms' = [forms EXCEPT ![e] =
                    Succeeded(f, "insert_child", AfterEntries(f, f.k, f.i + 1))]
          ELSE /\ child_rows' = child_rows
               /\ forms' = [forms EXCEPT ![e] = Failed(f, "insert_child", RemoteErrorMessage)]
  /\ UNCHANGED <<franchises, franchise_details, franchise_category_mappings,
                 franchise_gallery, storage, ExceptForms>>

(***************************************************************************)
(* Advertising settings: the admin's page that edits the pricing tiers     *)
(* (AdvertisingSettings.tsx).                                              *)
(***************************************************************************)
\* What parseFloat(value) || 0 yields for the values typed (in pence).
TypedPrices == {0, 4999}

IdleSettingsPage ==
  [pc |-> "mount", settings |-> DefaultPricing, error |-> "", success |-> ""]

\* fetchSettings on mount: the stored row replaces the defaults of the state.
FetchSettings(ok) ==
  /\ settingsPage.pc = "mount"
  /\ settingsPage' = IF ok
       THEN [settingsPage EXCEPT !.pc = "idle", !.settings = advertising_settings]
       ELSE [settingsPage EXCEPT !.pc = "idle", !.error = RemoteErrorMessage]
  /\ UNCHANGED <<advertising_settings, ExceptSettings>>

\* handlePriceChange('featured', index, value)
HandlePriceChange(duration, price) ==
  /\ settingsPage.pc = "idle"
  /\ settingsPage' = [settingsPage EXCEPT !.settings[duration] = price]
  /\ UNCHANGED <<advertising_settings, ExceptSettings>>

\* handleSubmit up to the upsert ...
SettingsSubmit ==
  /\ settingsPage.pc = "idle"
  /\ settingsPage' = [settingsPage EXCEPT !.pc = "saving", !.error = "", !.success = ""]
  /\ UNCHANGED <<advertising_settings, ExceptSettings>>

\* ... and after it: the single settings row holds the page's prices.
SettingsUpsert(ok) ==
  /\ settingsPage.pc = "saving"
  /\ advertising_settings' = IF ok THEN settingsPage.settings ELSE advertising_settings
  /\ settingsPage' = IF ok
       THEN [settingsPage EXCEPT !.pc = "idle", !.success = "Settings updated successfully"]
       ELSE [settingsPage EXCEPT !.pc = "idle", !.error = RemoteErrorMessage]
  /\ UNCHANGED ExceptSettings

(***************************************************************************)
(* FranchisorSignup.handleSubmit (Franchises.tsx:251-314), in the browser  *)
(* of the applicant.                                                       *)
(***************************************************************************)
IdleSignup == [pc |-> "idle", user |-> NoUser, session |-> NoUser, error |-> "", nav |-> ""]

\* Franchises.tsx:280-287, the row inserted for the new auth user.
SignupProfileApproved(u) ==
  [user_type |-> "franchisor", status |-> "approved", approved_at |-> Null]

SignupProfile(u) ==
  [user_type |-> "franchisor", status |-> "pending", approved_at |-> Null]

\* The form is submitted with an address EMAIL_REGEX rejects.
SignupInvalidEmail ==
  /\ signup.pc = "idle"
  /\ signup.nav = ""
  /\ signup' = [signup EXCEPT !.error = "Please enter a valid email address"]
  /\ UNCHANGED <<auth_users, ExceptSignup>>

\* supabase.auth.signUp: a new auth user, signed in in this browser when
\* signedIn (the project's setting of email confirmation decides), or an
\* error; an address already registered is refused.
SignupSubmit(u, ok, signedIn) ==
  /\ signup.pc = "idle"
  /\ signup.nav = ""
  /\ IF ok /\ u \notin auth_users
       THEN /\ auth_users' = auth_users \cup {u}
            /\ signup' = [signup EXCEPT !.pc = "profile", !.user = u, !.error = "",
                            !.session = IF signedIn THEN u ELSE NoUser]
       ELSE /\ auth_users' = auth_users
            /\ signup' = [signup EXCEPT !.error =
                 IF u \in auth_users THEN "An account with this email already exists"
                                     ELSE RemoteErrorMessage]
  /\ UNCHANGED ExceptSignup

\* The insert into profiles; a failure is shown and ends the handler.
SignupInsertProfile(ok) ==
  /\ signup.pc = "profile"
  /\ IF ok /\ profiles[signup.user] = NoProfile
       THEN /\ profiles' = [profiles EXCEPT ![signup.user] = SignupProfile(signup.user)]
            /\ signup' = [signup EXCEPT !.pc = "signout"]
       ELSE /\ profiles' = profiles
            /\ signup' = [signup EXCEPT !.pc = "idle", !.error = RemoteErrorMessage]
  /\ UNCHANGED <<auth_users, session, login, approvalVars, now, leadVars, adVars,
                 formVars, inquiryVars, settingVars, messageVars, layoutVars, dashboardVars>>

\* await supabase.auth.signOut(); navigate('/franchisor/login')
SignupSignOut ==
  /\ signup.pc = "signout"
  /\ signup' = [signup EXCEPT !.pc = "idle", !.session = NoUser,
                              !.nav = "/franchisor/login"]
  /\ UNCHANGED <<auth_users, ExceptSignup>>

(***************************************************************************)
(* Messages: the franchisor's Support page and the admin's Messages page.  *)
(***************************************************************************)
\* The rows the model lets the pages insert into messages.
MaxMessages == 2

\* The signed-in users of the two pages: franchisor fa on Support, the
\* administrator on Messages.
MessageUsers == {"fa", "adm"}

IdleMessagesPage ==
  [pc |-> "mount", messages |-> {}, unread |-> {}, error |-> "", fetched |-> FALSE,
   receiver |-> NoUser]

\* .or(`sender_id.eq.${user.id},receiver_id.eq.${user.id}`): the ids of the
\* rows the page of user u is sent.
MessagesOf(u) ==
  {i \in 1 .. Len(messages) : messages[i].sender_id = u \/ messages[i].receiver_id = u}

\* data.filter(m => m.receiver_id === user.id && !m.read)
UnreadMessages(u, ids) ==
  {i \in ids : messages[i].receiver_id = u /\ ~messages[i].read}

\* fetchMessages up to the update: the select returns, the rows are shown and
\* the unread ones the user received are picked.  Without any, the function
\* is done; an error goes to the page's error message.
MessagesSelect(u, ok) ==
  /\ msgPages[u].pc \in {"mount", "refetch"}
  /\ msgPages' = [msgPages EXCEPT ![u] =
       IF ok
         THEN [@ EXCEPT !.messages = MessagesOf(u),
                        !.unread = UnreadMessages(u, MessagesOf(u)),
                        !.fetched = TRUE,
                        !.pc = IF UnreadMessages(u, MessagesOf(u)) = {}
                                 THEN "idle" ELSE "marking"]
         ELSE [@ EXCEPT !.pc = "idle", !.fetched = FALSE, !.error = RemoteErrorMessage]]
  /\ UNCHANGED <<messages, ExceptMessages>>

\* The rows after update({ read: true }).in('id', ids).
MarkedRead(rows, ids) ==
  [i \in 1 .. Len(rows) |-> IF i \in ids THEN [rows[i] EXCEPT !.read = TRUE] ELSE rows[i]]

\* ... and the update returns.  Its result is not looked at.
MessagesMarkRead(u, ok) ==
  /\ msgPages[u].pc = "marking"
  /\ messages' = IF ok THEN MarkedRead(messages, msgPages[u].unread) ELSE messages
  /\ msgPages' = [msgPages EXCEPT ![u].pc = "idle"]
  /\ UNCHANGED ExceptMessages

\* Whom the page of u writes to: Support to the administrator, Messages to
\* the approved franchisor chosen.
Receivers(u) ==
  IF u = "adm"
    THEN {f \in Franchisors : profiles[f].status = "approved"}
    ELSE {a \in Users : profiles[a].user_type = "admin"}

\* handleSubmit up to the insert ...
MessageSubmit(u, receiver) ==
  /\ msgPages[u].pc = "idle"
  /\ receiver \in Receivers(u)
  /\ Len(messages) < MaxMessages
  /\ msgPages' = [msgPages EXCEPT ![u] = [@ EXCEPT !.pc = "sending", !.receiver = receiver, !.error = ""]]
  /\ UNCHANGED <<messages, ExceptMessages>>

\* ... and after it: the row is stored unread and fetchMessages is awaited,
\* or the error is shown.
MessageInsert(u, ok) ==
  /\ msgPages[u].pc = "sending"
  /\ messages' = IF ok
       THEN Append(messages, [sender_id |-> u, receiver_id |-> msgPages[u].receiver,
                              read |-> FALSE])
       ELSE messages
  /\ msgPages' = [msgPages EXCEPT ![u] =
       IF ok THEN [@ EXCEPT !.pc = "refetch"]
             ELSE [@ EXCEPT !.pc = "idle", !.error = RemoteErrorMessage]]
  /\ UNCHANGED ExceptMessages

\* The page is opened again: its state starts over and fetchMessages runs.
ReopenMessages(u) ==
  /\ msgPages[u].pc = "idle"
  /\ msgPages' = [msgPages EXCEPT ![u] = IdleMessagesPage]
  /\ UNCHANGED <<messages, ExceptMessages>>

(***************************************************************************)
(* Inquiries: the public pages Home, Search, CategoryBrowse and            *)
(* FranchiseDetails, and the leads a visitor sends from them.              *)
(***************************************************************************)
\* The rows the visitor may insert into franchise_leads.
MaxInquiries == 2

ModalPages == {"Home", "Search", "CategoryBrowse"}

\* a is not before b (dates of one time zone).
NotBefore(a, b) ==
  \/ a.year > b.year
  \/ a.year = b.year /\ a.month > b.month
  \/ a.year = b.year /\ a.month = b.month /\ a.day >= b.day

\* The ids in s, ascending, as a list.
RECURSIVE Ascending(_)
Ascending(s) ==
  IF s = {} THEN <<>>
  ELSE LET m == CHOOSE x \in s : \A y \in s : x <= y
       IN <<m>> \o Ascending(s \ {m})

\* The ads that pass the tests of status and payment_status alone.
AdsOfAnyEndDate ==
  {a \in featured_ads : a.status = "active" /\ a.payment_status = "completed"}

\* part_008:119-121, part_009:284-286 and part_010:129-131: the ads that pass
\* .eq('status', 'active').eq('payment_status', 'completed')
\* .gte('end_date', new Date().toISOString()).
DisplayableAds ==
  {a \in featured_ads : /\ a.status = "active"
                        /\ a.payment_status = "completed"
                        /\ NotBefore(a.end_date, Today)}

\* part_008:96-130, the featured franchises of Home: one row for every
\* active, paid ad that has not ended, the newest first; the row is the ad's
\* franchise, franchisor_id among its columns, with adId.
\* (limit(6) binds no list of the model: there are fewer ads.)
FeaturedFranchises ==
  LET ids == Ascending({a.id : a \in DisplayableAds})
      adOf(i) == CHOOSE a \in DisplayableAds : a.id = ids[Len(ids) + 1 - i]
  IN [i \in 1 .. Len(ids) |->
        [id |-> adOf(i).franchise_id,
         franchisor_id |-> franchises[adOf(i).franchise_id].franchisor_id,
         adId |-> adOf(i).id]]

\* part_009:267-296 and part_010:112-141, the ads of the sidebars of Search
\* and FranchiseDetails: the ids of the ads of the same three tests whose
\* franchise was returned with its details and a name.  (limit(3) of Search
\* binds no list of the model; every franchise of the model has a location.)
SidebarAdIds ==
  {a.id : a \in {r \in DisplayableAds : /\ franchises[r.franchise_id].exists
                                         /\ franchise_details[r.franchise_id].exists
                                         /\ franchises[r.franchise_id].name # ""}}

\* part_010:109-141: FranchiseDetails asks for the ads once the franchise was
\* read and has a first category.
DetailsAdIds(id, ok, adsOk) ==
  IF ok /\ franchises[id].exists /\ franchise_category_mappings[id] # <<>> /\ adsOk
    THEN SidebarAdIds
    ELSE {}

\* part_009:307-322 and part_002:57-75, the lists of Search and
\* CategoryBrowse: id, name, location, details and categories of the approved
\* franchises.  franchisor_id is not among the columns selected, so the rows
\* of the page have none (NoUser); nor have they an adId (0).
ListedFranchises(ids) ==
  [i \in 1 .. Cardinality(ids) |->
     [id |-> Ascending(ids)[i], franchisor_id |-> NoUser, adId |-> 0]]

\* The rows of franchises, and those that pass .eq('status', 'approved'),
\* part_009:322 and part_002:75.
ExistingFranchiseIds == {id \in FranchiseIds : franchises[id].exists}

ApprovedFranchiseIds ==
  {id \in FranchiseIds : franchises[id].exists /\ franchises[id].status = "approved"}

InCategory(categoryId) ==
  {id \in ApprovedFranchiseIds :
     \E i \in 1 .. Len(franchise_category_mappings[id]) :
        franchise_category_mappings[id][i] = categoryId}

\* Rows of ad_metrics the model lets the cards insert.
MaxMetrics == 2

\* part_011:27-40, FranchiseCard.recordMetric: a card with featured and adId
\* inserts a row of ad_metrics, created_at the day of the insert; the call is
\* not awaited by its callers and its result is not read.  (An insert that
\* fails leaves the table as it is, as does one beyond MaxMetrics here.)
MetricsAfterRecord(rows, adId, metricType) ==
  IF adId # 0 /\ Len(rows) < MaxMetrics
    THEN Append(rows, [ad_id |-> adId, metric_type |-> metricType, created_at |-> now])
    ELSE rows

\* part_011:43-45: every card records a view when it mounts.
RECURSIVE ViewsRecorded(_, _)
ViewsRecorded(rows, cards) ==
  IF cards = <<>> THEN rows
  ELSE ViewsRecorded(MetricsAfterRecord(rows, Head(cards).adId, "view"), Tail(cards))

IdleVisitor ==
  [page |-> "none", franchises |-> <<>>, featuredAds |-> {}, investmentRange |-> "",
   data |-> <<>>, selectedFranchises |-> {},
   isModalOpen |-> FALSE, pc |-> "idle", queue |-> <<>>, error |-> "",
   success |-> FALSE, issued |-> 0, thrown |-> FALSE, submitted |-> FALSE]

\* RequestInfoModal.tsx:34-43 and part_010:158-167: the row handed to insert.
\* The status column takes its default, new.
NewLead(franchise, page) ==
  [franchise_id |-> franchise.id, franchisor_id |-> franchise.franchisor_id,
   status |-> "new", page |-> page]

\* The page is opened and its list fetched; a failed fetch leaves it empty.
\* The cards of the list mount.
OpenHome(ok) ==
  /\ visitor.page = "none"
  /\ visitor' = [IdleVisitor EXCEPT !.page = "Home",
                   !.franchises = IF ok THEN FeaturedFranchises ELSE <<>>]
  /\ ad_metrics' = ViewsRecorded(ad_metrics, visitor'.franchises)
  /\ UNCHANGED <<lead_inserts, ExceptInquiries>>

\* The mount of Search: fetchFranchises and fetchFeaturedAds (part_009:217-221);
\* either may fail by itself.  (The category and investment filters of the
\* page only drop rows of the list; they are left out.)
OpenSearch(ok) ==
  /\ visitor.page = "none"
  /\ \E adsOk \in BOOLEAN :
       visitor' = [IdleVisitor EXCEPT !.page = "Search",
                     !.franchises = IF ok THEN ListedFranchises(ApprovedFranchiseIds)
                                          ELSE <<>>,
                     !.featuredAds = IF adsOk THEN SidebarAdIds ELSE {}]
  /\ UNCHANGED <<lead_inserts, ad_metrics, ExceptInquiries>>

OpenCategoryBrowse(categoryId, ok) ==
  /\ visitor.page = "none"
  /\ visitor' = [IdleVisitor EXCEPT !.page = "CategoryBrowse",
                   !.franchises = IF ok THEN ListedFranchises(InCategory(categoryId))
                                        ELSE <<>>]
  /\ UNCHANGED <<lead_inserts, ad_metrics, ExceptInquiries>>

\* part_010:82-103, fetchFranchiseDetails: select('*', ...) of the franchise
\* with this id, whatever its status; no row or an error leaves franchise null.
DetailsPage(id, ok) ==
  [IdleVisitor EXCEPT !.page = "FranchiseDetails",
     !.franchises = IF ok /\ franchises[id].exists
        THEN <<[id |-> id, franchisor_id |-> franchises[id].franchisor_id, adId |-> 0]>>
        ELSE <<>>]

(***************************************************************************)
(* Search with its investment filter (part_009:332-346).  Strings are      *)
(* lists of characters; a JavaScript value is a number, NaN or undefined.  *)
(***************************************************************************)
\* part_009:485-490, the values of the options of the select, and the value
\* searchParams.get('investment') returns for each once handleInvestmentChange
\* has set it: null ("") for "Any Amount", the option's value otherwise.
InvestmentOptions ==
  {"", "0-50000", "50000-100000", "100000-250000", "250000-500000", "500000+"}

OptionChars(option) ==
  CASE option = "0-50000" -> <<"0", "-", "5", "0", "0", "0", "0">>
    [] option = "50000-100000" ->
         <<"5", "0", "0", "0", "0", "-", "1", "0", "0", "0", "0", "0">>
    [] option = "100000-250000" ->
         <<"1", "0", "0", "0", "0", "0", "-", "2", "5", "0", "0", "0", "0">>
    [] option = "250000-500000" ->
         <<"2", "5", "0", "0", "0", "0", "-", "5", "0", "0", "0", "0", "0">>
    [] option = "500000+" -> <<"5", "0", "0", "0", "0", "0", "+">>
    [] OTHER -> <<>>

JsNumber(n) == [kind |-> "number", value |-> n]
JsNaN == [kind |-> "NaN", value |-> 0]
JsUndefined == [kind |-> "undefined", value |-> 0]

DigitChars == <<"0", "1", "2", "3", "4", "5", "6", "7", "8", "9">>
IsDigit(c) == \E d \in 1 .. 10 : DigitChars[d] = c
DigitValue(c) == (CHOOSE d \in 1 .. 10 : DigitChars[d] = c) - 1

\* String.prototype.split(sep) for a separator of one character.
RECURSIVE SplitChars(_, _)
SplitChars(chars, sep) ==
  IF \A i \in 1 .. Len(chars) : chars[i] # sep THEN <<chars>>
  ELSE LET k == CHOOSE i \in 1 .. Len(chars) :
                  chars[i] = sep /\ \A j \in 1 .. i - 1 : chars[j] # sep
       IN <<SubSeq(chars, 1, k - 1)>> \o SplitChars(SubSeq(chars, k + 1, Len(chars)), sep)

\* The value of a string of decimal digits.
RECURSIVE DecimalValue(_)
DecimalValue(chars) ==
  IF chars = <<>> THEN 0
  ELSE 10 * DecimalValue(SubSeq(chars, 1, Len(chars) - 1)) + DigitValue(chars[Len(chars)])

\* Number(string) for strings without blanks, sign, point or exponent: the
\* empty string is 0, a string of digits its value, any other string NaN.
Number(chars) ==
  IF \A i \in 1 .. Len(chars) : IsDigit(chars[i])
    THEN JsNumber(DecimalValue(chars))
    ELSE JsNaN

\* if (x): undefined, NaN and 0 are falsy.
Truthy(x) == x.kind = "number" /\ x.value # 0

\* amount >= x and amount <= x for a number amount: false for NaN.
AtLeast(amount, x) == x.kind = "number" /\ amount >= x.value
AtMost(amount, x) == x.kind = "number" /\ amount <= x.value

\* part_009:337, franchise.details?.investment_amount || 0.
AmountOf(row) == IF row.investment_amount = Null THEN 0 ELSE row.investment_amount

\* part_009:334-345: const [min, max] = investmentRange.split('-').map(Number),
\* and the test of the filter.
PassesInvestmentFilter(row, investmentRange) ==
  LET parts == SplitChars(OptionChars(investmentRange), "-")
      min == Number(parts[1])
      max == IF Len(parts) >= 2 THEN Number(parts[2]) ELSE JsUndefined
  IN IF Truthy(max)
       THEN AtLeast(AmountOf(row), min) /\ AtMost(AmountOf(row), max)
       ELSE AtLeast(AmountOf(row), min)

\* part_009:332-346: the rows fetched, filtered when investmentRange is set.
FilteredData(data, investmentRange) ==
  IF investmentRange = "" THEN data
  ELSE SelectSeq(data, LAMBDA row : PassesInvestmentFilter(row, investmentRange))

\* Investment amounts of the rows fetched (null: no amount stored).
AmountSamples == {Null, 0, 50000, 50001, 250000, 500000, 600000}

\* Search is opened with ?investment=...: fetchFranchises reads the approved
\* franchises, amounts[id] the investment_amount of the details of id, and
\* lists those that pass the filter; fetchFeaturedAds fills the sidebar.
OpenSearchFiltered(investmentRange, amounts, ok) ==
  /\ visitor.page = "none"
  /\ LET ids == Ascending(ApprovedFranchiseIds)
         data == [i \in 1 .. Len(ids) |-> [id |-> ids[i], investment_amount |-> amounts[ids[i]]]]
         filtered == FilteredData(data, investmentRange)
     IN \E adsOk \in BOOLEAN :
          visitor' = [IdleVisitor EXCEPT !.page = "Search",
                        !.investmentRange = investmentRange,
                        !.data = IF ok THEN data ELSE <<>>,
                        !.franchises = IF ok
                           THEN ListedFranchises({filtered[i].id : i \in 1 .. Len(filtered)})
                           ELSE <<>>,
                        !.featuredAds = IF adsOk THEN SidebarAdIds ELSE {}]
  /\ UNCHANGED <<lead_inserts, ad_metrics, ExceptInquiries>>

OpenFranchiseDetails(id, ok) ==
  /\ visitor.page = "none"
  /\ \E adsOk \in BOOLEAN :
       visitor' = [DetailsPage(id, ok) EXCEPT !.featuredAds = DetailsAdIds(id, ok, adsOk)]
  /\ UNCHANGED <<lead_inserts, ad_metrics, ExceptInquiries>>

\* The visitor leaves the page (no handler of it is running).
LeavePage ==
  /\ visitor.page # "none"
  /\ visitor.pc = "idle"
  /\ visitor' = IdleVisitor
  /\ UNCHANGED <<lead_inserts, ad_metrics, ExceptInquiries>>

\* part_011:51-54 and the page's handleRequestInfo: the card's checkbox
\* records a request_info metric and adds the franchise to the selection or
\* takes it out.
HandleRequestInfo(franchiseId) ==
  /\ visitor.page \in ModalPages
  /\ ~visitor.isModalOpen
  /\ \E i \in 1 .. Len(visitor.franchises) :
        /\ visitor.franchises[i].id = franchiseId
        /\ ad_metrics' = MetricsAfterRecord(ad_metrics, visitor.franchises[i].adId,
                                            "request_info")
  /\ visitor' = [visitor EXCEPT !.selectedFranchises =
                   IF franchiseId \in @ THEN @ \ {franchiseId} ELSE @ \cup {franchiseId}]
  /\ UNCHANGED <<lead_inserts, ExceptInquiries>>

\* part_011:47-49 and 128-135, handleClick: the card's "View Details" link
\* records a click and opens /franchise/:id, whose page fetches the franchise.
HandleCardClick(i, ok) ==
  /\ visitor.page \in ModalPages
  /\ ~visitor.isModalOpen
  /\ visitor.pc = "idle"
  /\ i \in 1 .. Len(visitor.franchises)
  /\ ad_metrics' = MetricsAfterRecord(ad_metrics, visitor.franchises[i].adId, "click")
  /\ \E adsOk \in BOOLEAN :
       visitor' = [DetailsPage(visitor.franchises[i].id, ok) EXCEPT
                     !.featuredAds = DetailsAdIds(visitor.franchises[i].id, ok, adsOk)]
  /\ UNCHANGED <<lead_inserts, ExceptInquiries>>

\* The bar shown while something is selected opens the modal.
OpenRequestModal ==
  /\ visitor.page \in ModalPages
  /\ visitor.selectedFranchises # {}
  /\ ~visitor.isModalOpen
  /\ visitor' = [visitor EXCEPT !.isModalOpen = TRUE]
  /\ UNCHANGED <<lead_inserts, ad_metrics, ExceptInquiries>>

CloseRequestModal ==
  /\ visitor.isModalOpen
  /\ visitor.pc = "idle"
  /\ visitor' = [visitor EXCEPT !.isModalOpen = FALSE]
  /\ UNCHANGED <<lead_inserts, ad_metrics, ExceptInquiries>>

\* The modal's prop: franchises.filter(f => selectedFranchises.includes(f.id)).
SelectedRows(list, selected) ==
  SelectSeq(list, LAMBDA f : f.id \in selected)

\* RequestInfoModal.handleSubmit up to its first await: the loop starts over
\* the franchises handed to the modal.
RequestSubmit ==
  /\ visitor.isModalOpen
  /\ visitor.pc = "idle"
  /\ LET rows == SelectedRows(visitor.franchises, visitor.selectedFranchises)
     IN /\ Len(lead_inserts) + Len(rows) <= MaxInquiries
        /\ visitor' = [visitor EXCEPT !.pc = "inserting", !.queue = rows,
                         !.issued = 0, !.thrown = FALSE, !.submitted = FALSE]
  /\ UNCHANGED <<lead_inserts, ad_metrics, ExceptInquiries>>

\* part_008:154-162, handleSubmitRequest: what the page's onSubmit does.
HandleSubmitRequest(v) ==
  [v EXCEPT !.isModalOpen = FALSE, !.selectedFranchises = {}, !.submitted = TRUE]

\* One turn of the loop: the insert of the next franchise's lead returns.  An
\* error is thrown to the catch, which writes it to the console; after the
\* last insert onSubmit is called.
RequestInsert(ok) ==
  /\ visitor.pc = "inserting"
  /\ visitor.queue # <<>>
  /\ LET v == [visitor EXCEPT !.issued = @ + 1, !.queue = Tail(@)]
     IN IF ok
          THEN /\ lead_inserts' = Append(lead_inserts, NewLead(Head(visitor.queue), visitor.page))
               /\ visitor' = IF v.queue = <<>>
                    THEN HandleSubmitRequest([v EXCEPT !.pc = "idle"])
                    ELSE v
          ELSE /\ lead_inserts' = lead_inserts
               /\ visitor' = [v EXCEPT !.pc = "idle", !.thrown = TRUE]
  /\ UNCHANGED <<ad_metrics, ExceptInquiries>>

\* FranchiseDetails.handleSubmit up to its await.
DetailsSubmit ==
  /\ visitor.page = "FranchiseDetails"
  /\ visitor.franchises # <<>>
  /\ visitor.pc = "idle"
  /\ Len(lead_inserts) < MaxInquiries
  /\ visitor' = [visitor EXCEPT !.pc = "details", !.error = "", !.success = FALSE,
                   !.issued = 0, !.thrown = FALSE]
  /\ UNCHANGED <<lead_inserts, ad_metrics, ExceptInquiries>>

\* ... and after it: success, or the page's error message.
DetailsInsert(ok) ==
  /\ visitor.pc = "details"
  /\ lead_inserts' = IF ok
       THEN Append(lead_inserts, NewLead(visitor.franchises[1], visitor.page))
       ELSE lead_inserts
  /\ visitor' = IF ok
       THEN [visitor EXCEPT !.pc = "idle", !.issued = 1, !.success = TRUE]
       ELSE [visitor EXCEPT !.pc = "idle", !.issued = 1, !.thrown = TRUE,
                            !.error = DetailsErrorMessage]
  /\ UNCHANGED <<ad_metrics, ExceptInquiries>>

(***************************************************************************)
(* FranchisorLayout: the notification badges of the franchisor's menu      *)
(* (FranchisorLayout.tsx)                                                  *)
(***************************************************************************)
\* Runs of fetchNotificationCounts that may be in flight at once.
MaxFetches == 2

\* The franchisor whose layout this is.
LayoutUser == "fa"

\* FranchisorLayout.tsx:20-24, the initial notificationCounts; `seen` is the
\* content of the two subscribed tables up to which change events have been
\* handed to the layout, `failed` whether a count was answered with an error
\* since the layout was mounted.
IdleLayout ==
  [mounted |-> FALSE, notificationCounts |-> [leads |-> 0, messages |-> 0, support |-> 0],
   seen |-> <<>>, failed |-> FALSE]

\* The rows of franchise_leads and of messages.
SubscribedTables == <<leads, lead_inserts, messages>>

\* Every change of the subscribed tables has had its event delivered.
EventsDelivered == layout.mounted => layout.seen = SubscribedTables

\* FranchisorLayout.tsx:64-68: count of franchise_leads with
\* franchisor_id = user.id and status = new.
NewLeadsCount(u) ==
  Cardinality({l \in LeadIds : leads[l].franchisor_id = u /\ leads[l].status = "new"})
  + Cardinality({i \in 1 .. Len(lead_inserts) :
                   lead_inserts[i].franchisor_id = u /\ lead_inserts[i].status = "new"})

\* FranchisorLayout.tsx:71-75: count of messages with receiver_id = user.id
\* and read = false.
UnreadCount(u) == Cardinality(UnreadMessages(u, 1 .. Len(messages)))

\* fetchNotificationCounts up to its first await.
StartedFetch == [pc |-> "getUser", newLeads |-> 0]

\* FranchisorLayout.tsx:26-27 and 30-50: the effect of the first render
\* calls fetchNotificationCounts and subscribes to the two tables.
LayoutMount ==
  /\ ~layout.mounted
  /\ layout' = [IdleLayout EXCEPT !.mounted = TRUE, !.seen = SubscribedTables]
  /\ countFetches' = <<StartedFetch>>
  /\ UNCHANGED ExceptLayout

\* FranchisorLayout.tsx:52-55: the cleanup removes the two channels; what the
\* fetches in flight set afterwards is set on a component that is gone.
LayoutUnmount ==
  /\ layout.mounted
  /\ layout' = IdleLayout
  /\ countFetches' = <<>>
  /\ UNCHANGED ExceptLayout

\* FranchisorLayout.tsx:36-38 and 47-49: a change event of franchise_leads or
\* of messages arrives, and its callback calls fetchNotificationCounts.
ChangeEvent ==
  /\ layout.mounted
  /\ layout.seen # SubscribedTables
  /\ Len(countFetches) < MaxFetches
  /\ layout' = [layout EXCEPT !.seen = SubscribedTables]
  /\ countFetches' = Append(countFetches, StartedFetch)
  /\ UNCHANGED ExceptLayout

\* FranchisorLayout.tsx:60-61: getUser returns; without a user the function
\* returns.
CountsGetUser(i, user) ==
  /\ i \in 1 .. Len(countFetches)
  /\ countFetches[i].pc = "getUser"
  /\ countFetches' = IF user = NoUser
       THEN RemoveAt(countFetches, i)
       ELSE [countFetches EXCEPT ![i].pc = "leads"]
  /\ layout' = IF user = NoUser THEN [layout EXCEPT !.failed = TRUE] ELSE layout
  /\ UNCHANGED ExceptLayout

\* FranchisorLayout.tsx:64-68: the count of new leads returns; of an error
\* only the count, null, is read.
CountsNewLeads(i, ok) ==
  /\ i \in 1 .. Len(countFetches)
  /\ countFetches[i].pc = "leads"
  /\ countFetches' = [countFetches EXCEPT ![i] =
       [pc |-> "messages", newLeads |-> IF ok THEN NewLeadsCount(LayoutUser) ELSE 0]]
  /\ layout' = IF ok THEN layout ELSE [layout EXCEPT !.failed = TRUE]
  /\ UNCHANGED ExceptLayout

\* What setNotificationCounts is handed, FranchisorLayout.tsx:77-81.
CountsOfLatestFetch(current, newLeads, unreadMessages) ==
  [leads |-> newLeads, messages |-> 0, support |-> unreadMessages]

\* FranchisorLayout.tsx:71-81: the count of unread messages returns and
\* setNotificationCounts replaces the counts by those of this run.
CountsUnreadAndSet(i, ok) ==
  /\ i \in 1 .. Len(countFetches)
  /\ countFetches[i].pc = "messages"
  /\ layout' = [layout EXCEPT
       !.notificationCounts =
          CountsOfLatestFetch(@, countFetches[i].newLeads,
                              IF ok THEN UnreadCount(LayoutUser) ELSE 0),
       !.failed = @ \/ ~ok]
  /\ countFetches' = RemoveAt(countFetches, i)
  /\ UNCHANGED ExceptLayout

(***************************************************************************)
(* FranchisorDashboard: the ad metrics of the dashboard (Dashboard.tsx).   *)
(* fetchRecentActivity, the other fetch of the mount, fills the activity   *)
(* list, which is left out.                                                *)
(***************************************************************************)
\* The franchisors whose dashboards the model follows.
DashboardUsers == {"fa", "fb"}

\* Dashboard.tsx:27-32, the initial adMetrics.
NoAdMetrics ==
  [totalViews |-> 0, totalClicks |-> 0, totalRequests |-> 0, recentMetrics |-> <<>>]

IdleDashboard == [pc |-> "closed", adIds |-> {}, adMetrics |-> NoAdMetrics]

\* metrics.filter(m => m.metric_type === ...).length
MetricCount(rows, metricType) ==
  Cardinality({j \in 1 .. Len(rows) : rows[j].metric_type = metricType})

\* metrics.filter(m => m.created_at.startsWith(date))
MetricsOfDay(rows, day) == SelectSeq(rows, LAMBDA m : m.created_at = day)

\* Dashboard.tsx:65-88: the totals, and a row for each of the last 7 days,
\* today first.
AdMetricsOf(rows) ==
  [totalViews |-> MetricCount(rows, "view"),
   totalClicks |-> MetricCount(rows, "click"),
   totalRequests |-> MetricCount(rows, "request_info"),
   recentMetrics |-> [i \in 1 .. 7 |->
      [date |-> now - (i - 1),
       views |-> MetricCount(MetricsOfDay(rows, now - (i - 1)), "view"),
       clicks |-> MetricCount(MetricsOfDay(rows, now - (i - 1)), "click"),
       requests |-> MetricCount(MetricsOfDay(rows, now - (i - 1)), "request_info")]]]

\* Dashboard.tsx:46-50: .from('featured_ads').select('id, franchise_id')
\* .eq('status', 'active').eq('payment_status', 'completed'); the query names
\* no franchisor.
SelectedAdIds(u) ==
  {a.id : a \in {r \in featured_ads : r.status = "active" /\ r.payment_status = "completed"}}

\* The ads of the franchises of u that pass the same two tests.
OwnAdIds(u) ==
  {a.id : a \in {r \in featured_ads : /\ r.status = "active"
                                      /\ r.payment_status = "completed"
                                      /\ franchises[r.franchise_id].franchisor_id = u}}

\* Dashboard.tsx:57-61: .from('ad_metrics').in('ad_id', adIds)
MetricsOfAds(adIds) == SelectSeq(ad_metrics, LAMBDA m : m.ad_id \in adIds)

\* The dashboard of an approved franchisor mounts: fetchAdMetrics runs up to
\* getUser.
DashboardMount(u) ==
  /\ dashboard[u].pc = "closed"
  /\ profiles[u] # NoProfile
  /\ profiles[u].user_type = "franchisor"
  /\ profiles[u].status = "approved"
  /\ dashboard' = [dashboard EXCEPT ![u] = [IdleDashboard EXCEPT !.pc = "getUser"]]
  /\ UNCHANGED ExceptDashboard

\* Dashboard.tsx:42-43: without a user the function returns.
DashboardGetUser(u, ok) ==
  /\ dashboard[u].pc = "getUser"
  /\ dashboard' = [dashboard EXCEPT ![u].pc = IF ok THEN "ads" ELSE "idle"]
  /\ UNCHANGED ExceptDashboard

\* Dashboard.tsx:46-54: the ads; without any, or with an error (data is
\* null), the function returns.
DashboardSelectAds(u, ok) ==
  /\ dashboard[u].pc = "ads"
  /\ dashboard' = [dashboard EXCEPT ![u] =
       IF ok /\ SelectedAdIds(u) # {}
         THEN [@ EXCEPT !.pc = "metrics", !.adIds = SelectedAdIds(u)]
         ELSE [@ EXCEPT !.pc = "idle"]]
  /\ UNCHANGED ExceptDashboard

\* Dashboard.tsx:57-95: the metrics of these ads, counted and shown.
DashboardSelectMetrics(u, ok) ==
  /\ dashboard[u].pc = "metrics"
  /\ dashboard' = [dashboard EXCEPT ![u] =
       IF ok
         THEN [@ EXCEPT !.pc = "idle",
                        !.adMetrics = AdMetricsOf(MetricsOfAds(dashboard[u].adIds))]
         ELSE [@ EXCEPT !.pc = "idle"]]
  /\ UNCHANGED ExceptDashboard

\* The franchisor leaves the dashboard.
DashboardLeave(u) ==
  /\ dashboard[u].pc = "idle"
  /\ dashboard' = [dashboard EXCEPT ![u] = IdleDashboard]
  /\ UNCHANGED ExceptDashboard

(***************************************************************************)
(* Initial state and specifications                                        *)
(***************************************************************************)
InitProfiles ==
  [u \in Users |->
     CASE u = "fa"  -> [user_type |-> "franchisor", status |-> "approved", approved_at |-> 0]
       [] u = "fb"  -> [user_type |-> "franchisor", status |-> "pending", approved_at |-> Null]
       [] u = "adm" -> [user_type |-> "admin", status |-> "approved", approved_at |-> Null]
       [] u = "cus" -> [user_type |-> "customer", status |-> "default", approved_at |-> Null]
       [] OTHER     -> NoProfile]

InitFranchises ==
  [f \in FranchiseIds |->
     CASE f = 1 -> [exists |-> TRUE, status |-> "pending", approved_at |-> Null,
                    franchisor_id |-> "fa", name |-> "old"]
       [] f = 2 -> [exists |-> TRUE, status |-> "approved", approved_at |-> 0,
                    franchisor_id |-> "fa", name |-> "old"]
       [] OTHER -> NoFranchise]

\* Franchise 1 was added without an image, sub-categories or child entries;
\* franchise 2 with all of them.
InitDetails ==
  [id \in FranchiseIds |->
     CASE id = 1 -> [exists |-> TRUE, main_image_url |-> ""]
       [] id = 2 -> [exists |-> TRUE, main_image_url |-> "main-images/old"]
       [] OTHER -> NoDetails]

InitMappings ==
  [id \in FranchiseIds |->
     CASE id = 1 -> <<"m1">> [] id = 2 -> <<"m1", "s1">> [] OTHER -> <<>>]

InitChildRows ==
  [id \in FranchiseIds |-> [k \in Kinds |->
     IF id = 2
       THEN <<[first |-> "x", second |-> "x",
               image_url |-> IF k = "story" THEN "success-stories/old" ELSE "",
               old |-> TRUE, entry |-> 0, by |-> ""]>>
       ELSE <<>>]]

Init ==
  /\ now = 0
  /\ profiles = InitProfiles
  /\ session = NoUser
  /\ login = IdleLogin
  /\ franchises = InitFranchises
  /\ adminPage = [a \in Admins |-> IdleAdminPage]
  /\ leads = [l \in LeadIds |-> [status |-> "new", franchisor_id |-> "fa", franchise_id |-> 1]]
  /\ leadsPage = [loaded |-> FALSE, leads |-> [l \in LeadIds |-> "none"], error |-> "",
                  selectedLead |-> NoLead, isModalOpen |-> FALSE]
  /\ leadReqs = <<>>
  /\ featured_ads = {}
  /\ adsPage = IdleAdsPage
  /\ adminAds = IdleAdminAds
  /\ franchise_details = InitDetails
  /\ franchise_category_mappings = InitMappings
  /\ franchise_gallery = [id \in FranchiseIds |-> <<>>]
  /\ child_rows = InitChildRows
  /\ storage = {"main-images/old", "success-stories/old"}
  /\ forms = [e \in Editors |-> IdleForm]
  /\ visitor = IdleVisitor
  /\ lead_inserts = <<>>
  /\ advertising_settings = DefaultPricing
  /\ settingsPage = IdleSettingsPage
  /\ messages = <<>>
  /\ msgPages = [u \in MessageUsers |-> IdleMessagesPage]
  /\ auth_users = Registered
  /\ signup = IdleSignup
  /\ layout = IdleLayout
  /\ ad_metrics = <<>>
  /\ dashboard = [u \in DashboardUsers |-> IdleDashboard]
  /\ countFetches = <<>>

NextLogin ==
  \/ \E u \in Users, ok \in BOOLEAN : FranchisorLoginSubmit(u, ok)
  \/ \E ok \in BOOLEAN : FranchisorLoginReadProfile(ok)
  \/ \E ok \in BOOLEAN : FranchisorLoginFinish(ok)
  \/ \E u \in Users, ok \in BOOLEAN : AdminLoginSubmit(u, ok)
  \/ \E ok \in BOOLEAN : AdminLoginReadProfile(ok)
  \/ UserMenuSignOut

NextAccountApproval ==
  \/ \E a \in Admins, ok \in BOOLEAN : FetchPendingAccounts(a, ok)
  \/ \E a \in Admins, id \in Users, approved \in BOOLEAN, ok \in BOOLEAN :
        AccountApprovalUpdate(a, id, approved, ok)
  \/ \E a \in Admins, ok \in BOOLEAN : AccountApprovalRefresh(a, ok)

NextFranchiseApproval ==
  \/ \E a \in Admins : FetchPendingFranchises(a)
  \/ \E a \in Admins, id \in FranchiseIds, approved \in BOOLEAN, ok \in BOOLEAN :
        FranchiseApprovalUpdate(a, id, approved, ok)
  \/ \E a \in Admins, ok \in BOOLEAN : FranchiseApprovalRefresh(a, ok)

\* Accounts: login, sign-out and the admins' account approvals.
NextAccounts == NextLogin \/ NextAccountApproval \/ Tick
SpecAccounts == Init /\ [][NextAccounts]_vars

\* Approvals: two admins on the two approval pages.
NextApprovals == NextAccountApproval \/ NextFranchiseApproval \/ Tick
SpecApprovals == Init /\ [][NextApprovals]_vars

\* The Leads page of franchisor fa.
NextLeads ==
  \/ \E ok \in BOOLEAN : FetchLeads(ok)
  \/ \E l \in LeadIds : HandleViewLead(l, MaxInFlight)
  \/ CloseLeadModal
  \/ \E l \in LeadIds, s \in PickedStatuses : SelectLeadStatus(l, s, MaxInFlight)
  \/ \E i \in 1 .. MaxInFlight, ok \in BOOLEAN : LeadUpdateServed(i, ok)
  \/ \E i \in 1 .. MaxInFlight : LeadUpdateReturned(i)
SpecLeads == Init /\ [][NextLeads]_vars

\* Featured ads: the purchase of franchisor fa and the admin's page.
NextAds ==
  \/ \E okFranchises, okTiers \in BOOLEAN : AdsPageMount(okFranchises, okTiers)
  \/ HandleCreateAd
  \/ \E f \in FranchiseIds, d \in Durations : SelectFranchiseAndDuration(f, d)
  \/ HandleDurationSelected
  \/ ClosePaymentModal
  \/ \E ok \in BOOLEAN : (ok => AdsWithinBound) /\ PaymentConfirmInsert(ok)
  \/ \E ok \in BOOLEAN : PaymentConfirmCheckout(ok)
  \/ \E ok \in BOOLEAN : PaymentConfirmRedirect(ok)
  \/ \E ok \in BOOLEAN : AdminFetchAds(ok)
  \/ \E id \in AdIds : HandleSelectAd(id)
  \/ \E ok \in BOOLEAN : PaymentReceivedUpdate(ok)
  \/ \E ok \in BOOLEAN : DeleteAdsUpdate(ok)
  \/ \E ok \in BOOLEAN : AdminAdsRefresh(ok)
  \/ Tick
SpecAds == Init /\ [][NextAds]_vars

\* Opening a form in the browser of editor e, EditFranchise for one of ids.
NextOpenForm(e, ids) ==
  \/ \E okCategories \in BOOLEAN : OpenAddFranchise(e, okCategories)
  \/ \E id \in ids, okFranchise, okCategories \in BOOLEAN :
       OpenEditFranchise(e, id, okFranchise, okCategories)

\* The steps of handleSubmit in the browser of editor e.
NextSubmit(e) ==
  \/ SubmitStart(e)
  \/ \E ok \in BOOLEAN : SubmitGetUser(e, ok)
  \/ \E ok \in BOOLEAN : SubmitWriteFranchise(e, ok)
  \/ \E ok \in BOOLEAN : SubmitWriteDetails(e, ok)
  \/ \E ok \in BOOLEAN : SubmitDeleteMappings(e, ok)
  \/ \E ok \in BOOLEAN : SubmitInsertMapping(e, ok)
  \/ \E ok \in BOOLEAN : SubmitDeleteChildren(e, ok)
  \/ \E ok \in BOOLEAN : SubmitInsertChild(e, ok)

\* Its steps that upload a chosen file.
NextSubmitFiles(e) ==
  \/ \E ok \in BOOLEAN : SubmitUploadMainImage(e, ok)
  \/ \E ok \in BOOLEAN : SubmitUploadGallery(e, ok)
  \/ \E ok \in BOOLEAN : SubmitInsertGallery(e, ok)
  \/ \E ok \in BOOLEAN : SubmitUploadStoryImage(e, ok)

\* The inputs of the form's fixed fields: name, images and categories.
NextEditFields(e) ==
  \/ \E v \in {"new"} : SetName(e, v)
  \/ \E file \in BOOLEAN : SetMainImageFile(e, file)
  \/ \E n \in 0 .. 1 : HandleGalleryChange(e, n)
  \/ \E c \in {""} \cup Categories : HandleMainCategoryChange(e, c)
  \/ \E c \in Categories : HandleSubCategoryChange(e, c)
  \/ \E index \in 1 .. MaxEntries, file \in BOOLEAN : SetStoryImageFile(e, index, file)

\* The inputs of the FAQ, testimonial and success-story lists, and the
\* fields without which a new franchise cannot be submitted.
NextEditEntries(e) ==
  \/ \E v \in {"new"} : SetName(e, v)
  \/ \E c \in {""} \cup Categories : HandleMainCategoryChange(e, c)
  \/ \E kind \in Kinds : AddEntry(e, kind)
  \/ \E kind \in Kinds, index \in 1 .. MaxEntries : RemoveEntry(e, kind, index)
  \/ \E kind \in Kinds, index \in 1 .. MaxEntries, field \in {"first", "second"},
        value \in Texts : SetEntryField(e, kind, index, field, value)

\* One franchisor works on one form and changes its fixed fields and files ...
NextForms ==
  \/ NextOpenForm("e1", FranchiseIds)
  \/ NextEditFields("e1")
  \/ NextSubmit("e1")
  \/ NextSubmitFiles("e1")
SpecForms == Init /\ [][NextForms]_vars

\* ... or the lists of entries, of a new franchise or of franchise 2.
NextEntries ==
  \/ NextOpenForm("e1", {2})
  \/ NextEditEntries("e1")
  \/ NextSubmit("e1")
SpecEntries == Init /\ [][NextEntries]_vars


\* The steps of a visitor on the public pages.
NextVisitor ==
  \/ \E ok \in BOOLEAN : OpenHome(ok)
  \/ \E ok \in BOOLEAN : OpenSearch(ok)
  \/ \E c \in Categories, ok \in BOOLEAN : OpenCategoryBrowse(c, ok)
  \/ \E id \in FranchiseIds, ok \in BOOLEAN : OpenFranchiseDetails(id, ok)
  \/ LeavePage
  \/ \E id \in FranchiseIds : HandleRequestInfo(id)
  \/ OpenRequestModal
  \/ CloseRequestModal
  \/ RequestSubmit
  \/ \E ok \in BOOLEAN : RequestInsert(ok)
  \/ DetailsSubmit
  \/ \E ok \in BOOLEAN : DetailsInsert(ok)

\* What puts franchises on the public pages: an admin approves franchise 1,
\* and franchisor fa buys an ad that the admin marks as paid.
NextListings ==
  \/ FetchPendingFranchises("A1")
  \/ \E ok \in BOOLEAN : FranchiseApprovalUpdate("A1", 1, TRUE, ok)
  \/ FranchiseApprovalRefresh("A1", TRUE)
  \/ AdsPageMount(TRUE, TRUE)
  \/ HandleCreateAd
  \/ SelectFranchiseAndDuration(2, "1w")
  \/ HandleDurationSelected
  \/ AdsWithinBound /\ PaymentConfirmInsert(TRUE)
  \/ PaymentConfirmCheckout(FALSE)
  \/ AdminFetchAds(TRUE)
  \/ \E id \in AdIds : HandleSelectAd(id)
  \/ PaymentReceivedUpdate(TRUE)
  \/ AdminAdsRefresh(TRUE)

\* Visitors send inquiries about the franchises listed.
NextInquiries == NextVisitor \/ NextListings
SpecInquiries == Init /\ [][NextInquiries]_vars

\* The admin's settings page.
NextSettings ==
  \/ \E ok \in BOOLEAN : FetchSettings(ok)
  \/ \E d \in Durations, price \in TypedPrices : HandlePriceChange(d, price)
  \/ SettingsSubmit
  \/ \E ok \in BOOLEAN : SettingsUpsert(ok)

\* The purchase of franchisor fa.
NextPurchase ==
  \/ \E okFranchises, okTiers \in BOOLEAN : AdsPageMount(okFranchises, okTiers)
  \/ HandleCreateAd
  \/ \E f \in FranchiseIds, d \in Durations : SelectFranchiseAndDuration(f, d)
  \/ HandleDurationSelected
  \/ ClosePaymentModal
  \/ \E ok \in BOOLEAN : PaymentConfirmInsert(ok)
  \/ \E ok \in BOOLEAN : PaymentConfirmCheckout(ok)
  \/ \E ok \in BOOLEAN : PaymentConfirmRedirect(ok)

\* Pricing: the admin changes the price of one tier while the franchisor buys.
NextPricing ==
  \/ \E ok \in BOOLEAN : FetchSettings(ok)
  \/ \E price \in TypedPrices : HandlePriceChange("1w", price)
  \/ SettingsSubmit
  \/ \E ok \in BOOLEAN : SettingsUpsert(ok)
  \/ NextPurchase
SpecPricing == Init /\ [][NextPricing]_vars

\* Messages between franchisor fa and the administrator.
NextMessages ==
  \/ \E u \in MessageUsers, ok \in BOOLEAN : MessagesSelect(u, ok)
  \/ \E u \in MessageUsers, ok \in BOOLEAN : MessagesMarkRead(u, ok)
  \/ \E u \in MessageUsers, receiver \in Users : MessageSubmit(u, receiver)
  \/ \E u \in MessageUsers, ok \in BOOLEAN : MessageInsert(u, ok)
  \/ \E u \in MessageUsers : ReopenMessages(u)
SpecMessages == Init /\ [][NextMessages]_vars

\* The sign-up of an applicant, with an address of their own or with the one
\* fa is registered with.
NextSignup ==
  \/ SignupInvalidEmail
  \/ \E u \in {"fa", "fc"}, ok, signedIn \in BOOLEAN : SignupSubmit(u, ok, signedIn)
  \/ \E ok \in BOOLEAN : SignupInsertProfile(ok)
  \/ SignupSignOut

\* Sign-up, the admins' account approvals and the applicant's logins on the
\* franchisor login form.
NextRegistration ==
  \/ NextSignup
  \/ NextAccountApproval
  \/ \E ok \in BOOLEAN : FranchisorLoginSubmit("fc", ok)
  \/ \E ok \in BOOLEAN : FranchisorLoginReadProfile(ok)
  \/ \E ok \in BOOLEAN : FranchisorLoginFinish(ok)
  \/ UserMenuSignOut
SpecRegistration == Init /\ [][NextRegistration]_vars

\* Two franchisor browsers edit franchise 2 at once; the second changes the
\* first field of its FAQ and of its testimonial before it submits.  Of the
\* remote calls only the deletes of the child tables may fail here.
NextConcurrentEdit ==
  \/ \E e \in Editors : OpenEditFranchise(e, 2, TRUE, TRUE)
  \/ \E kind \in {"faq", "testimonial"} : SetEntryField("e2", kind, 1, "first", "y")
  \/ \E e \in Editors : SubmitStart(e)
  \/ \E e \in Editors : SubmitWriteFranchise(e, TRUE)
  \/ \E e \in Editors : SubmitWriteDetails(e, TRUE)
  \/ \E e \in Editors : SubmitDeleteMappings(e, TRUE)
  \/ \E e \in Editors : SubmitInsertMapping(e, TRUE)
  \/ \E e \in Editors, ok \in BOOLEAN : SubmitDeleteChildren(e, ok)
  \/ \E e \in Editors : SubmitInsertChild(e, TRUE)
SpecConcurrentEdit == Init /\ [][NextConcurrentEdit]_vars

\* The layout of franchisor fa while they work on their Leads page and the
\* administrator writes to them; fa reads the messages on the Support page.
\* A row is written once the event of the write before it has been delivered.
NextLayout ==
  \/ LayoutMount
  \/ LayoutUnmount
  \/ ChangeEvent
  \/ \E i \in 1 .. MaxFetches, user \in {LayoutUser, NoUser} : CountsGetUser(i, user)
  \/ \E i \in 1 .. MaxFetches, ok \in BOOLEAN : CountsNewLeads(i, ok)
  \/ \E i \in 1 .. MaxFetches, ok \in BOOLEAN : CountsUnreadAndSet(i, ok)
  \/ FetchLeads(TRUE)
  \/ \E l \in LeadIds : HandleViewLead(l, MaxInFlight)
  \/ CloseLeadModal
  \/ \E i \in 1 .. MaxInFlight : EventsDelivered /\ LeadUpdateServed(i, TRUE)
  \/ \E i \in 1 .. MaxInFlight : LeadUpdateReturned(i)
  \/ \E u \in MessageUsers : MessagesSelect(u, TRUE)
  \/ EventsDelivered /\ MessagesMarkRead(LayoutUser, TRUE)
  \/ MessageSubmit("adm", LayoutUser)
  \/ EventsDelivered /\ MessageInsert("adm", TRUE)
SpecLayout == Init /\ [][NextLayout]_vars

\* Franchise 2 is edited in one browser and afterwards, or meanwhile, in
\* another; the editors change the category selection.  Of the remote calls
\* only the delete of the mappings may fail here.
NextCategories ==
  \/ \E e \in Editors : OpenEditFranchise(e, 2, TRUE, TRUE)
  \/ \E e \in Editors, c \in {""} \cup Categories : HandleMainCategoryChange(e, c)
  \/ \E e \in Editors, c \in Categories : HandleSubCategoryChange(e, c)
  \/ \E e \in Editors : SubmitStart(e)
  \/ \E e \in Editors : SubmitWriteFranchise(e, TRUE)
  \/ \E e \in Editors : SubmitWriteDetails(e, TRUE)
  \/ \E e \in Editors, ok \in BOOLEAN : SubmitDeleteMappings(e, ok)
  \/ \E e \in Editors : SubmitInsertMapping(e, TRUE)
  \/ \E e \in Editors : SubmitDeleteChildren(e, TRUE)
  \/ \E e \in Editors : SubmitInsertChild(e, TRUE)
SpecCategories == Init /\ [][NextCategories]_vars

\* A franchisor adds a franchise, an admin decides on the pending ones and a
\* visitor opens Search and CategoryBrowse.
NextPublication ==
  \/ OpenAddFranchise("e1", TRUE)
  \/ SetName("e1", "new")
  \/ \E c \in {""} \cup Categories : HandleMainCategoryChange("e1", c)
  \/ \E c \in Categories : HandleSubCategoryChange("e1", c)
  \/ SubmitStart("e1")
  \/ \E ok \in BOOLEAN : SubmitGetUser("e1", ok)
  \/ \E ok \in BOOLEAN : SubmitWriteFranchise("e1", ok)
  \/ \E ok \in BOOLEAN : SubmitWriteDetails("e1", ok)
  \/ \E ok \in BOOLEAN : SubmitInsertMapping("e1", ok)
  \/ FetchPendingFranchises("A1")
  \/ \E id \in FranchiseIds, approved \in BOOLEAN, ok \in BOOLEAN :
        FranchiseApprovalUpdate("A1", id, approved, ok)
  \/ \E ok \in BOOLEAN : FranchiseApprovalRefresh("A1", ok)
  \/ \E ok \in BOOLEAN : OpenSearch(ok)
  \/ \E c \in {"m1", "s2"}, ok \in BOOLEAN : OpenCategoryBrowse(c, ok)
  \/ LeavePage
SpecPublication == Init /\ [][NextPublication]_vars

\* Franchisor fa buys an ad for franchise 2 and the admin marks it as paid; a
\* visitor opens Home and uses its cards; the admin approves the account of
\* franchisor fb; both franchisors open their dashboards.
NextDashboard ==
  \/ AdsPageMount(TRUE, TRUE)
  \/ HandleCreateAd
  \/ SelectFranchiseAndDuration(2, "1w")
  \/ HandleDurationSelected
  \/ AdsWithinBound /\ PaymentConfirmInsert(TRUE)
  \/ PaymentConfirmCheckout(FALSE)
  \/ AdminFetchAds(TRUE)
  \/ \E id \in AdIds : HandleSelectAd(id)
  \/ PaymentReceivedUpdate(TRUE)
  \/ AdminAdsRefresh(TRUE)
  \/ FetchPendingAccounts("A1", TRUE)
  \/ AccountApprovalUpdate("A1", "fb", TRUE, TRUE)
  \/ AccountApprovalRefresh("A1", TRUE)
  \/ OpenHome(TRUE)
  \/ \E id \in FranchiseIds : HandleRequestInfo(id)
  \/ \E i \in 1 .. MaxAds, ok \in BOOLEAN : HandleCardClick(i, ok)
  \/ LeavePage
  \/ \E u \in DashboardUsers : DashboardMount(u)
  \/ \E u \in DashboardUsers, ok \in BOOLEAN : DashboardGetUser(u, ok)
  \/ \E u \in DashboardUsers, ok \in BOOLEAN : DashboardSelectAds(u, ok)
  \/ \E u \in DashboardUsers, ok \in BOOLEAN : DashboardSelectMetrics(u, ok)
  \/ \E u \in DashboardUsers : DashboardLeave(u)
  \/ Tick
SpecDashboard == Init /\ [][NextDashboard]_vars

\* Sign-up, the account approvals of admin A1, and logins of every user on
\* the franchisor login form.
NextLoginGate ==
  \/ NextSignup
  \/ \E ok \in BOOLEAN : FetchPendingAccounts("A1", ok)
  \/ \E id \in Users, approved \in BOOLEAN, ok \in BOOLEAN :
        AccountApprovalUpdate("A1", id, approved, ok)
  \/ \E ok \in BOOLEAN : AccountApprovalRefresh("A1", ok)
  \/ \E u \in Users, ok \in BOOLEAN : FranchisorLoginSubmit(u, ok)
  \/ \E ok \in BOOLEAN : FranchisorLoginReadProfile(ok)
  \/ \E ok \in BOOLEAN : FranchisorLoginFinish(ok)
  \/ UserMenuSignOut
SpecLoginGate == Init /\ [][NextLoginGate]_vars

\* Franchisor fa buys a week for franchise 2, and once more when days have
\* passed; the admin marks ads as paid; visitors open the public pages.
NextDisplay ==
  \/ AdsPageMount(TRUE, TRUE)
  \/ HandleCreateAd
  \/ SelectFranchiseAndDuration(2, "1w")
  \/ HandleDurationSelected
  \/ PaymentConfirmInsert(TRUE)
  \/ PaymentConfirmCheckout(FALSE)
  \/ AdminFetchAds(TRUE)
  \/ \E id \in AdIds : HandleSelectAd(id)
  \/ PaymentReceivedUpdate(TRUE)
  \/ AdminAdsRefresh(TRUE)
  \/ \E ok \in BOOLEAN : OpenHome(ok)
  \/ \E ok \in BOOLEAN : OpenSearch(ok)
  \/ \E ok \in BOOLEAN : OpenFranchiseDetails(2, ok)
  \/ LeavePage
  \/ LongWaitPasses
SpecDisplay == Init /\ [][NextDisplay]_vars

\* Two browsers edit franchise 1 and change its name, before and after admin
\* A1 decides on the pending franchises; a visitor opens Search.
NextModeration ==
  \/ \E e \in Editors : OpenEditFranchise(e, 1, TRUE, TRUE)
  \/ \E e \in Editors : SetName(e, "new")
  \/ \E e \in Editors : SubmitStart(e)
  \/ \E e \in Editors, ok \in BOOLEAN : SubmitWriteFranchise(e, ok)
  \/ \E e \in Editors : SubmitWriteDetails(e, TRUE)
  \/ \E e \in Editors : SubmitDeleteMappings(e, TRUE)
  \/ \E e \in Editors : SubmitInsertMapping(e, TRUE)
  \/ \E e \in Editors : SubmitDeleteChildren(e, TRUE)
  \/ FetchPendingFranchises("A1")
  \/ \E id \in FranchiseIds, approved \in BOOLEAN :
        FranchiseApprovalUpdate("A1", id, approved, TRUE)
  \/ FranchiseApprovalRefresh("A1", TRUE)
  \/ OpenSearch(TRUE)
  \/ LeavePage
SpecModeration == Init /\ [][NextModeration]_vars

\* The Leads page with one update more in flight than elsewhere: the
\* franchisor changes the select of one row before the answer for another
\* has arrived.
NextLeadsOverlap ==
  \/ FetchLeads(TRUE)
  \/ \E l \in LeadIds : HandleViewLead(l, MaxInFlight + 1)
  \/ CloseLeadModal
  \/ \E l \in LeadIds, s \in PickedStatuses : SelectLeadStatus(l, s, MaxInFlight + 1)
  \/ \E i \in 1 .. MaxInFlight + 1, ok \in BOOLEAN : LeadUpdateServed(i, ok)
  \/ \E i \in 1 .. MaxInFlight + 1 : LeadUpdateReturned(i)
SpecLeadsOverlap == Init /\ [][NextLeadsOverlap]_vars

\* Admin A1 decides on the pending franchises; a visitor opens Search with an
\* investment range.
NextSearchFilter ==
  \/ FetchPendingFranchises("A1")
  \/ \E id \in FranchiseIds, approved \in BOOLEAN :
        FranchiseApprovalUpdate("A1", id, approved, TRUE)
  \/ FranchiseApprovalRefresh("A1", TRUE)
  \/ \E option \in InvestmentOptions, amounts \in [FranchiseIds -> AmountSamples],
        ok \in BOOLEAN : OpenSearchFiltered(option, amounts, ok)
  \/ LeavePage
SpecSearchFilter == Init /\ [][NextSearchFilter]_vars

Next == NextSearchFilter \/ NextLeadsOverlap \/ NextModeration \/ NextDisplay \/ NextLoginGate \/ NextDashboard \/ NextPublication \/ NextCategories \/ NextLayout \/ NextConcurrentEdit \/ NextSignup \/ NextMessages \/ NextSettings \/ NextVisitor \/ NextForms \/ NextEntries \/ NextAds \/ NextLeads \/ NextLogin \/ NextAccountApproval \/ NextFranchiseApproval \/ Tick
Spec == Init /\ [][Next]_vars

(***************************************************************************)
(* Claims                                                                  *)
(***************************************************************************)
OtherStatus(status) == IF status = "pending" THEN "rejected" ELSE "pending"

\* C1: a franchisor login whose credentials were accepted and whose profile
\* read has user_type franchisor and status pending or rejected ends with the
\* session signed out, without navigation to the dashboard, and with the
\* error message of that status, which is not the message of the other one.
C1_PendingRejectedSignedOut ==
  (/\ login.form = "franchisor"
   /\ login.pc = "idle"
   /\ login.seen.user_type = "franchisor"
   /\ login.seen.status \in {"pending", "rejected"})
  => /\ session = NoUser
     /\ login.nav = ""
     /\ login.error # ""
     /\ login.error =
          IF login.seen.status = "pending" THEN PendingMessage ELSE RejectedMessage
     /\ login.error #
          FranchisorCheck([login.seen EXCEPT !.status = OtherStatus(@)]).error

\* C1, witness: a login of a franchisor the admin rejected has ended.
C1_Witness ==
  /\ login.form = "franchisor"
  /\ login.pc = "idle"
  /\ login.seen.user_type = "franchisor"
  /\ login.seen.status = "rejected"
  /\ login.outcome = "authfail"

\* C2: after a login attempt that ended in an authorization failure detected
\* after a successful sign-in (wrong role included), an error is shown and no
\* authenticated session remains.
C2_NoSessionAfterAuthFailure ==
  (login.pc = "idle" /\ login.outcome = "authfail")
  => (login.error # "" /\ session = NoUser)

\* C3: each handleViewLead on a lead listed as new starts exactly one update
\* of that lead to contacted, and on a lead listed with another status starts
\* none; an update the database serves stores its status for its lead, and an
\* update that returns without error lists its status for its lead.
C3_ViewNewLeadContactedOnce ==
  [][/\ (~leadsPage.isModalOpen /\ leadsPage'.isModalOpen) =>
          LET lead == leadsPage'.selectedLead
          IN /\ lead.id \in LeadIds
             /\ lead.status = leadsPage.leads[lead.id]
             /\ IF lead.status = "new"
                  THEN /\ Len(leadReqs') = Len(leadReqs) + 1
                       /\ SubSeq(leadReqs', 1, Len(leadReqs)) = leadReqs
                       /\ leadReqs'[Len(leadReqs')].id = lead.id
                       /\ leadReqs'[Len(leadReqs')].status = "contacted"
                       /\ leadReqs'[Len(leadReqs')].result = "sent"
                  ELSE leadReqs' = leadReqs
     /\ \A i \in 1 .. Len(leadReqs) :
          (/\ leadReqs[i].result = "sent"
           /\ leadReqs' = [leadReqs EXCEPT ![i].result = "ok"])
          => leads'[leadReqs[i].id].status = leadReqs[i].status
     /\ \A i \in 1 .. Len(leadReqs) :
          (/\ leadReqs[i].result = "ok"
           /\ leadReqs' = RemoveAt(leadReqs, i))
          => leadsPage'.leads[leadReqs[i].id] = leadReqs[i].status
    ]_vars

\* C3, witness: a lead listed as new was opened, and its update to contacted
\* has been served and has returned.
C3_Witness ==
  /\ leadsPage.isModalOpen
  /\ leadsPage.selectedLead.status = "new"
  /\ leadReqs = <<>>
  /\ leads[leadsPage.selectedLead.id].status = "contacted"
  /\ leadsPage.leads[leadsPage.selectedLead.id] = "contacted"

\* C10: a step of handleApproval changes exactly one row, only a row whose
\* stored status is pending, to approved with approved_at the time of the
\* approval or to rejected with approved_at null.
FlippedAsClaimed(old, new) ==
  /\ old.status = "pending"
  /\ \/ new.status = "approved" /\ new.approved_at = now
     \/ new.status = "rejected" /\ new.approved_at = Null

C10_OnlyPendingRowsFlipped ==
  [][/\ profiles' # profiles =>
          /\ Cardinality({u \in Users : profiles'[u] # profiles[u]}) = 1
          /\ \A u \in Users :
               profiles'[u] # profiles[u] => FlippedAsClaimed(profiles[u], profiles'[u])
     /\ franchises' # franchises =>
          /\ Cardinality({f \in FranchiseIds : franchises'[f] # franchises[f]}) = 1
          /\ \A f \in FranchiseIds :
               franchises'[f] # franchises[f]
                 => FlippedAsClaimed(franchises[f], franchises'[f])
    ]_vars


(***************************************************************************)
(* Calendar arithmetic the claims about dates are stated in: the day       *)
(* number of a date, and a date some calendar months after another.        *)
(***************************************************************************)
RECURSIVE DaysBeforeMonth(_, _)
DaysBeforeMonth(y, m) ==
  IF m = 0 THEN 0 ELSE DaysBeforeMonth(y, m - 1) + DaysInMonth(y, m - 1)

\* Days from 1 January 2025 (the model's dates lie in 2025 and 2026).
DayNumber(date) ==
  (IF date.year > 2025 THEN 365 ELSE 0)
    + DaysBeforeMonth(date.year, date.month) + date.day

\* The same day of the month n months later, or that month's last day where
\* the month is shorter.
PlusMonths(date, n) ==
  LET total == date.month + n
      y == date.year + (total \div 12)
      m == total % 12
  IN [year |-> y, month |-> m,
      day |-> IF date.day > DaysInMonth(y, m) THEN DaysInMonth(y, m) ELSE date.day]

\* C4: every featured-ad row handlePaymentConfirm inserted ends at its start
\* plus the offset of the selected duration: 7 days for 1w, 14 days for 2w,
\* one calendar month for 1m and six calendar months for 6m.
C4_EndDateIsStartPlusOffset ==
  \A r \in featured_ads :
    CASE r.duration = "1w" -> DayNumber(r.end_date) = DayNumber(r.start_date) + 7
      [] r.duration = "2w" -> DayNumber(r.end_date) = DayNumber(r.start_date) + 14
      [] r.duration = "1m" -> r.end_date = PlusMonths(r.start_date, 1)
      [] r.duration = "6m" -> r.end_date = PlusMonths(r.start_date, 6)
      [] OTHER -> FALSE

\* C9: every featured ad the application wrote is active exactly when its
\* payment is completed; it is created pending_payment/pending and only the
\* admin's mark-payment-received step changes either column.
C9_ActiveIffPaymentCompleted ==
  /\ [](\A r \in featured_ads :
          r.status = "active" <=> r.payment_status = "completed")
  /\ [][/\ \A r \in featured_ads' :
            (\A q \in featured_ads : q.id # r.id) =>
               r.status = "pending_payment" /\ r.payment_status = "pending"
        /\ \A q \in featured_ads, r \in featured_ads' :
            (q.id = r.id /\ q # r) =>
               /\ adminAds.pc = "idle" /\ adminAds'.pc = "paid_refresh"
               /\ q.id \in adminAds.selectedAds
               /\ r = [q EXCEPT !.status = "active",
                                !.payment_status = "completed"]
               /\ \A t \in featured_ads' :
                    t.id \in adminAds.selectedAds =>
                      t.status = "active" /\ t.payment_status = "completed"]_vars

\* An ad that was inserted and later marked as paid by the admin, whose page
\* has refreshed its list.
C9_Witness ==
  /\ \E r \in featured_ads : r.status = "active" /\ r.payment_status = "completed"
  /\ adminAds.pc = "idle"
  /\ adminAds.selectedAds = {}


\* C5: in the add and the edit form alike, a change of the main category
\* leaves no sub-category selected, whatever was selected before.
C5_MainCategoryChangeResetsSubCategories ==
  [][\A e \in Editors :
       (/\ forms[e].page \in {"add", "edit"}
        /\ forms'[e].page = forms[e].page
        /\ forms'[e].selectedMainCategory # forms[e].selectedMainCategory)
       => forms'[e].selectedSubCategories = <<>>]_vars

\* The edit form of franchise 2, loaded with main category m1 and
\* sub-category s1, after the main category was changed to m2.
C5_Witness ==
  /\ forms["e1"].page = "edit" /\ forms["e1"].id = 2 /\ forms["e1"].loaded = "ok"
  /\ forms["e1"].pc = "editing"
  /\ forms["e1"].selectedMainCategory = "m2"
  /\ forms["e1"].selectedSubCategories = <<>>

\* C6: while and after a submit of a loaded edit form without a new main
\* image file, no main image has been uploaded, and once the details are
\* written their main_image_url is the url fetchFranchise loaded.
C6_EditWithoutFileKeepsMainImageUrl ==
  \A e \in Editors :
    (/\ forms[e].page = "edit" /\ forms[e].loaded = "ok"
     /\ forms[e].pc \notin {"closed", "editing"}
     /\ ~forms[e].mainImageFile)
    => /\ "upload_main" \notin forms[e].calls
       /\ "write_details" \in forms[e].calls =>
            franchise_details[forms[e].id].main_image_url = forms[e].loadedMainImageUrl

\* An edit of franchise 2 submitted without a new file has written the
\* details and finished.
C6_Witness ==
  /\ forms["e1"].page = "edit" /\ forms["e1"].id = 2 /\ forms["e1"].loaded = "ok"
  /\ ~forms["e1"].mainImageFile
  /\ forms["e1"].pc = "done"
  /\ franchise_details[2].main_image_url = "main-images/old"

\* The rows of franchise id's child table `kind` written by the running or
\* last submit, and the positions of the form entries with both fields set.
RowsWritten(id, kind) ==
  IF id \in FranchiseIds
    THEN SelectSeq(child_rows[id][kind], LAMBDA r : ~r.old)
    ELSE <<>>
BothFieldsSet(entries) ==
  SelectSeq([j \in 1 .. Len(entries) |-> j],
            LAMBDA j : entries[j].first # "" /\ entries[j].second # "")

C8_EditReplacesChildRecords ==
  \A e \in Editors :
    (forms[e].page = "edit" /\ forms[e].pc = "done")
    => \A kind \in Kinds :
         LET stored == child_rows[forms[e].id][kind]
         IN /\ \A n \in 1 .. Len(stored) : ~stored[n].old
            /\ [n \in 1 .. Len(stored) |-> stored[n].entry]
                 = BothFieldsSet(forms[e].entries[kind])

\* C11: every lead inserted by the request modal (opened from Home, Search or
\* CategoryBrowse) or by the form of the franchise details page carries the
\* franchisor_id of the franchise its franchise_id names.
C11_LeadTiedToOwningFranchisor ==
  \A i \in 1 .. Len(lead_inserts) :
     lead_inserts[i].franchisor_id = franchises[lead_inserts[i].franchise_id].franchisor_id

\* C12: the amount stored on a new featured_ads row and the amount sent in
\* the checkout-session request both equal the price the advertising settings
\* hold for the selected duration when the ad is created, and no later step
\* changes the amount of an existing ad.
C12_AmountIsSettingsPriceAtCreation ==
  [][/\ \A r \in featured_ads' \ featured_ads :
          r.amount = advertising_settings[r.duration]
     /\ (adsPage.pc = "checkout" /\ adsPage'.pc # "checkout") =>
          \E r \in featured_ads :
             r.id = adsPage.adId /\ adsPage'.checkoutAmount = r.amount
     /\ \A r \in featured_ads : \A q \in featured_ads' :
          q.id = r.id => q.amount = r.amount]_vars

\* C13: the purchase is a linear sequence.  The calls of handlePaymentConfirm
\* return in the order insert, checkout-session request, redirect, and none
\* is issued after one that failed; the insert that succeeded stored a row
\* with status pending_payment; no call is issued when the selected duration
\* has no pricing tier.
PurchaseCalls == <<"insert", "checkout", "redirect">>

C13_PurchaseIsLinear ==
  /\ [](/\ Len(adsPage.trace) <= Len(PurchaseCalls)
        /\ \A i \in 1 .. Len(adsPage.trace) :
             /\ adsPage.trace[i].call = PurchaseCalls[i]
             /\ i < Len(adsPage.trace) => adsPage.trace[i].ok
        /\ adsPage.pc = "checkout" => adsPage.trace = <<[call |-> "insert", ok |-> TRUE]>>
        /\ adsPage.pc = "redirect" => Len(adsPage.trace) = 2 /\ adsPage.trace[2].ok)
  /\ [][/\ (adsPage'.trace # adsPage.trace /\ adsPage'.trace # <<>>
            /\ adsPage'.trace[1] = [call |-> "insert", ok |-> TRUE]
            /\ Len(adsPage'.trace) = 1) =>
              \E r \in featured_ads' \ featured_ads :
                 /\ r.id = adsPage'.adId
                 /\ r.status = "pending_payment"
        /\ (adsPage.selectedDuration \notin DOMAIN adsPage.pricingTiers) =>
              (adsPage'.trace = adsPage.trace \/ adsPage'.trace = <<>>)]_vars

\* A purchase whose three calls all succeeded.
C13_Witness ==
  /\ Len(adsPage.trace) = 3
  /\ adsPage.trace[3].ok
  /\ adsPage.pc = "idle"
  /\ \E r \in featured_ads : r.id = adsPage.adId /\ r.status = "pending_payment"

\* C14: when fetchMessages of the Support or Messages page completes for
\* user u, every message it fetched whose receiver is u is stored as read;
\* its steps leave the read flag of every message of another receiver alone.
C14_FetchedMessagesStoredRead ==
  [][\A u \in MessageUsers :
       /\ (msgPages[u].pc \in {"mount", "refetch", "marking"}
           /\ msgPages'[u].pc = "idle" /\ msgPages'[u].fetched) =>
             \A i \in msgPages'[u].messages :
                messages'[i].receiver_id = u => messages'[i].read
       /\ (msgPages[u].pc \in {"mount", "refetch", "marking"}
           /\ msgPages'[u] # msgPages[u]) =>
             \A i \in 1 .. Len(messages) :
                messages[i].receiver_id # u => messages'[i].read = messages[i].read]_vars

\* C15: a successful franchisor sign-up inserts the profile of the new auth
\* user with user_type franchisor and status pending and has signed the
\* browser out when it navigates to the login page; the status of a profile
\* changes only in a step of the admin's approval update for that account.
C15_SignupPendingThenAdminOnly ==
  [][/\ (signup.pc = "profile" /\ signup'.pc = "signout") =>
          /\ profiles[signup.user] = NoProfile
          /\ profiles'[signup.user].user_type = "franchisor"
          /\ profiles'[signup.user].status = "pending"
     /\ (signup'.nav = "/franchisor/login" /\ signup.nav # "/franchisor/login") =>
          /\ signup.pc = "signout"
          /\ signup'.session = NoUser
     /\ \A u \in Users :
          (profiles[u] # NoProfile /\ profiles'[u].status # profiles[u].status) =>
             \E a \in Admins : /\ adminPage[a].pc = "idle"
                               /\ adminPage'[a].pc = "accounts_refresh"
                               /\ adminPage'[a].processingId = u]_vars

\* The applicant signed up and was sent to the login page; an admin has
\* since approved the account.
C15_Witness ==
  /\ signup.nav = "/franchisor/login"
  /\ signup.session = NoUser
  /\ signup.user \notin Registered
  /\ profiles[signup.user].user_type = "franchisor"
  /\ profiles[signup.user].status = "approved"

\* C16: the delete-all of an EditFranchise submit has no concurrency guard.
\* Whenever the delete of an editor's submit is served, every row of that
\* table goes, rows another editor's running submit inserted included, and
\* the editor's history names that other editor; so two concurrent submits of
\* one franchise can both report success over a stored set neither submitted
\* (the witness).
StoredEntries(id, kind) ==
  [n \in 1 .. Len(child_rows[id][kind]) |->
     [first |-> child_rows[id][kind][n].first, second |-> child_rows[id][kind][n].second]]

SubmittedEntries(e, kind) ==
  LET full == SelectSeq(forms[e].entries[kind], FullyPopulated)
  IN [n \in 1 .. Len(full) |-> [first |-> full[n].first, second |-> full[n].second]]

ReportedSuccess(e) ==
  forms[e].pc = "done" /\ forms[e].nav = "/franchisor/franchises" /\ forms[e].error = ""

C16_DeleteAllSparesNoRow ==
  [][\A e \in Editors :
       (forms[e].pc = "delete_children" /\ forms'[e].pc # "delete_children"
        /\ child_rows' # child_rows) =>
          LET id == forms[e].franchiseId
              kind == KindOrder[forms[e].k]
          IN /\ child_rows'[id][kind] = <<>>
             /\ \A o \in Editors \ {e} :
                  (\E j \in 1 .. Len(child_rows[id][kind]) :
                      child_rows[id][kind][j].by = o) => o \in forms'[e].erased]_vars

\* Both submits of franchise 2 reported success, one deleted rows the other
\* had inserted, and what is stored, all of it written by the two submits,
\* is the set of neither.
C16_Witness ==
  /\ \A e \in Editors : ReportedSuccess(e) /\ forms[e].franchiseId = 2
  /\ \E e \in Editors : forms[e].erased # {}
  /\ \A kind \in Kinds : \A j \in 1 .. Len(child_rows[2][kind]) :
        child_rows[2][kind][j].by \in Editors
  /\ \A e \in Editors : \E kind \in Kinds :
        StoredEntries(2, kind) # SubmittedEntries(e, kind)

\* C17: the writes of AddFranchise.handleSubmit and EditFranchise.handleSubmit
\* are sequential and not atomic.  The step in which a remote call of a
\* submit fails changes no table and no stored object (what earlier steps
\* wrote stays), and from then on the submit runs no later step: the form is
\* back at its inputs with the error shown, and it has not navigated.
TableState == <<franchises, tableVars>>

C17_FailedStepStopsSubmitKeepsWrites ==
  /\ [](\A e \in Editors :
          forms[e].failed # {} =>
             /\ forms[e].pc = "editing"
             /\ forms[e].error # ""
             /\ forms[e].nav = "")
  /\ [][\A e \in Editors :
          forms'[e].failed # forms[e].failed /\ forms'[e].failed # {} =>
             TableState' = TableState]_vars

\* C18: a failed remote call aborts the operation.  Once a remote call of a
\* franchise form's submit (a delete-all of the edit flow included), of
\* handlePaymentConfirm or of the request modal's submit has failed, the
\* operation issues no later remote call and does not report success.
FormAborted(e) ==
  forms[e].failed # {} => forms[e].pc = "editing" /\ forms[e].nav = ""

PurchaseAborted ==
  /\ \A i \in 1 .. Len(adsPage.trace) - 1 : adsPage.trace[i].ok
  /\ (adsPage.trace # <<>> /\ ~adsPage.trace[Len(adsPage.trace)].ok) =>
        adsPage.pc = "idle" /\ ~adsPage.processing

RequestAborted ==
  visitor.thrown => visitor.pc = "idle" /\ ~visitor.submitted

C18_FailedCallAbortsOperation ==
  /\ []((\A e \in Editors : FormAborted(e)) /\ PurchaseAborted /\ RequestAborted)
  /\ [][/\ \A e \in Editors :
            (forms[e].failed # {} /\ forms'[e].submits = forms[e].submits) =>
               forms'[e].calls = forms[e].calls
        /\ (visitor.thrown /\ visitor'.thrown) => visitor'.issued = visitor.issued]_vars

\* C19: every error of a remote write is shown on the page where the action
\* was taken.  When a lead insert of a visitor's page, a status update of the
\* franchise approvals page, a lead status update or a payment/delete update
\* of the admin's featured ads fails, the page's error message is non-empty
\* afterwards.
C19_FailedWriteShowsError ==
  [][/\ (visitor'.thrown /\ ~visitor.thrown) => visitor'.error # ""
     /\ \A a \in Admins :
          (adminPage'[a].writeFailed /\ ~adminPage[a].writeFailed) =>
             adminPage'[a].error # ""
     /\ \A i \in 1 .. Len(leadReqs) :
          (leadReqs[i].result = "error" /\ leadReqs' = RemoveAt(leadReqs, i)) =>
             leadsPage'.error # ""
     /\ (adminAds.pc = "idle" /\ adminAds.selectedAds # {} /\ adminAds'.pc = "idle"
         /\ adminAds'.selectedAds = adminAds.selectedAds /\ adminAds' # adminAds) =>
             adminAds'.error # ""]_vars

\* C20: once every change event has been delivered and no run of
\* fetchNotificationCounts is in flight, and none of the counts was answered
\* with an error, the leads badge is the number of the user's leads with
\* status new and the support badge the number of unread messages the user
\* received.
C20_BadgesCurrentWhenQuiet ==
  (layout.mounted /\ EventsDelivered /\ countFetches = <<>> /\ ~layout.failed) =>
     /\ layout.notificationCounts.leads = NewLeadsCount(LayoutUser)
     /\ layout.notificationCounts.support = UnreadCount(LayoutUser)

\* C21: a failed checkout-session request or redirect of handlePaymentConfirm
\* leaves featured_ads as it is, the row the handler inserted still stored
\* with status pending_payment and payment_status pending; and every insert
\* of a confirmation that succeeds adds one row to the table, whatever rows
\* of the same franchise and duration are stored already.
C21_FailedPurchaseKeepsRowAndRepeats ==
  [][/\ (adsPage.pc \in {"checkout", "redirect"} /\ adsPage'.pc = "idle"
         /\ adsPage'.trace[Len(adsPage'.trace)].ok = FALSE) =>
          /\ featured_ads' = featured_ads
          /\ \E r \in featured_ads' :
               /\ r.id = adsPage.adId
               /\ r.status = "pending_payment"
               /\ r.payment_status = "pending"
     /\ (adsPage.pc = "idle" /\ adsPage'.pc = "checkout") =>
          /\ Cardinality(featured_ads') = Cardinality(featured_ads) + 1
          /\ featured_ads \subseteq featured_ads']_vars

\* Two confirmations of the same franchise and duration have each failed at
\* the checkout or the redirect, and both their rows are stored.
C21_Witness ==
  /\ adsPage.pc = "idle"
  /\ adsPage.error \in {"Failed to create checkout session", "Stripe failed to load"}
  /\ \E r1, r2 \in featured_ads :
       /\ r1.id # r2.id
       /\ r1.franchise_id = r2.franchise_id
       /\ r1.duration = r2.duration
       /\ r1.status = "pending_payment" /\ r2.status = "pending_payment"
       /\ r1.payment_status = "pending" /\ r2.payment_status = "pending"

\* One main category, then sub-categories of it, none of them twice.
OneMainPlusSubs(ids, main) ==
  /\ Len(ids) >= 1
  /\ ids[1] = main
  /\ ParentOf(main) = ""
  /\ \A j \in 2 .. Len(ids) : ParentOf(ids[j]) = main
  /\ \A i, j \in 1 .. Len(ids) : ids[i] = ids[j] => i = j

\* C22: the category ids a submit of the add or edit form writes are the
\* selected main category, which has no parent, followed by categories
\* whose parent it is, each once; also when the selection is the one loaded
\* from the stored mappings.
C22_WrittenMappingsOneMainPlusSubs ==
  \A e \in Editors :
    (forms[e].submits > 0 /\ forms[e].pc \notin {"closed", "editing"}) =>
       OneMainPlusSubs(CategoryIds(forms[e]), forms[e].selectedMainCategory)

\* C23: a row of franchises is created with status pending; the list Search
\* or CategoryBrowse fetches holds only franchises stored as approved at the
\* time of the query; and a status becomes approved only by the update of an
\* admin's approvals page.  So a new franchise is in no fetched list before
\* an admin has approved it.
C23_ListedOnlyWhileApproved ==
  [][/\ \A id \in FranchiseIds :
          (~franchises[id].exists /\ franchises'[id].exists) =>
             franchises'[id].status = "pending"
     /\ (visitor.page = "none" /\ visitor'.page \in {"Search", "CategoryBrowse"}) =>
          \A i \in 1 .. Len(visitor'.franchises) :
             /\ franchises[visitor'.franchises[i].id].exists
             /\ franchises[visitor'.franchises[i].id].status = "approved"
     /\ \A id \in FranchiseIds :
          (franchises[id].status # "approved" /\ franchises'[id].status = "approved") =>
             \E a \in Admins : /\ adminPage[a].pc = "idle"
                               /\ adminPage'[a].pc = "franchises_refresh"]_vars

\* The franchise added through the form has been approved and is in the list
\* a visitor fetched.
C23_Witness ==
  /\ forms["e1"].page = "add"
  /\ forms["e1"].franchiseId # 0
  /\ franchises[forms["e1"].franchiseId].exists
  /\ franchises[forms["e1"].franchiseId].status = "approved"
  /\ visitor.page \in {"Search", "CategoryBrowse"}
  /\ \E i \in 1 .. Len(visitor.franchises) : visitor.franchises[i].id = forms["e1"].franchiseId

\* The rows of ad_metrics recorded for the ads of the franchises of u.
MetricsOfFranchisor(u) ==
  SelectSeq(ad_metrics, LAMBDA m :
     \E a \in featured_ads : a.id = m.ad_id /\ franchises[a.franchise_id].franchisor_id = u)

\* C24: the totals and the rows of the last 7 days on the dashboard of a
\* franchisor count no metric but those of that franchisor's own ads: none
\* of the numbers exceeds the number of such metrics recorded.
C24_DashboardCountsOwnAdsOnly ==
  \A u \in DashboardUsers :
    LET shown == dashboard[u].adMetrics
        own == MetricsOfFranchisor(u)
    IN /\ shown.totalViews <= MetricCount(own, "view")
       /\ shown.totalClicks <= MetricCount(own, "click")
       /\ shown.totalRequests <= MetricCount(own, "request_info")
       /\ \A i \in 1 .. Len(shown.recentMetrics) :
            LET row == shown.recentMetrics[i]
            IN /\ row.views <= MetricCount(MetricsOfDay(own, row.date), "view")
               /\ row.clicks <= MetricCount(MetricsOfDay(own, row.date), "click")
               /\ row.requests <= MetricCount(MetricsOfDay(own, row.date), "request_info")

ShownAdIds(v) ==
  v.featuredAds \cup ({v.franchises[i].adId : i \in 1 .. Len(v.franchises)} \ {0})

\* C26: the ads a public page shows when it is opened are among those that,
\* at that time, have status active, payment_status completed and an end_date
\* that has not passed; no ad shown is still in pending_payment; and no step
\* of the application writes the status expired.
C26_ShownAdsActivePaidNotEnded ==
  /\ [][visitor'.page # visitor.page
          => \A id \in ShownAdIds(visitor') :
               \E a \in featured_ads : /\ a.id = id
                                       /\ a.status = "active"
                                       /\ a.payment_status = "completed"
                                       /\ NotBefore(a.end_date, Today)]_vars
  /\ [](\A id \in ShownAdIds(visitor) :
          \A a \in featured_ads : a.id = id => a.status # "pending_payment")
  /\ [][\A a \in featured_ads' : a.status = "expired" => a \in featured_ads]_vars

\* C26, witness: Home was opened and shows the card of ad 2 alone, while ad 1
\* is still active and paid in the table and its end_date has passed.
C26_Witness ==
  /\ visitor.page = "Home"
  /\ Len(visitor.franchises) = 1
  /\ visitor.franchises[1].adId = 2
  /\ \E a \in featured_ads : /\ a.id = 1
                             /\ a.status = "active"
                             /\ a.payment_status = "completed"
                             /\ ~NotBefore(a.end_date, Today)

\* C27: no step of EditFranchise changes the status or approved_at of a
\* franchise: a franchise that is approved, and so among those Search lists,
\* before a step of the form is so after it.
C27_EditKeepsModerationState ==
  [][forms' # forms
       => /\ \A id \in FranchiseIds :
               /\ franchises'[id].status = franchises[id].status
               /\ franchises'[id].approved_at = franchises[id].approved_at
          /\ ApprovedFranchiseIds' = ApprovedFranchiseIds]_vars

\* C27, witness: both browsers have edited, and changed the name of, a
\* franchise that the admin approved before the first of the edits wrote; it
\* is approved and a visitor's Search lists it.
C27_Witness ==
  /\ \A e \in Editors : forms[e].id = 1 /\ forms[e].pc = "done"
  /\ franchises[1].name = "new"
  /\ franchises[1].status = "approved"
  /\ visitor.page = "Search"
  /\ \E i \in 1 .. Len(visitor.franchises) : visitor.franchises[i].id = 1

\* C28: on a loaded Leads page with no status update in flight, the status
\* the list shows for every lead is the status stored for it.
C28_ListMatchesStoredWhenQuiet ==
  (leadsPage.loaded /\ leadReqs = <<>>)
    => \A l \in LeadIds : leadsPage.leads[l] = leads[l].status

\* The bounds the options of the investment select stand for.
WithinOption(amount, option) ==
  CASE option = "0-50000" -> amount >= 0 /\ amount <= 50000
    [] option = "50000-100000" -> amount >= 50000 /\ amount <= 100000
    [] option = "100000-250000" -> amount >= 100000 /\ amount <= 250000
    [] option = "250000-500000" -> amount >= 250000 /\ amount <= 500000
    [] option = "500000+" -> amount >= 500000
    [] OTHER -> TRUE

\* C29: the list of Search holds exactly the fetched franchises whose
\* investment amount (0 when none is stored) lies within the bounds of the
\* selected option, 500000+ standing for every amount of at least 500000,
\* and all of them when no option is selected.
C29_ListIsFetchedWithinOption ==
  visitor.page = "Search"
    => {visitor.franchises[i].id : i \in 1 .. Len(visitor.franchises)}
         = {visitor.data[i].id : i \in
              {j \in 1 .. Len(visitor.data) :
                 WithinOption(AmountOf(visitor.data[j]), visitor.investmentRange)}}

\* The same for the options with two bounds and for no option.
ClosedOptionListIsFetchedWithinOption ==
  (visitor.page = "Search" /\ visitor.investmentRange # "500000+")
    => {visitor.franchises[i].id : i \in 1 .. Len(visitor.franchises)}
         = {visitor.data[i].id : i \in
              {j \in 1 .. Len(visitor.data) :
                 WithinOption(AmountOf(visitor.data[j]), visitor.investmentRange)}}

====
